---------------------------- MODULE Spec2Model ----------------------------
(***************************************************************************)
(* Degrees of separation: the co-star graph store (internal/graph) and the *)
(* batch ingest driver (cmd/ingest).                                       *)
(*                                                                         *)
(* The graph is kept as Neo4j keeps it: a set of nodes with their own      *)
(* identity (nid) carrying the properties tmdb_id and name, and a set of   *)
(* directed relationships with their own identity (rid) between two nodes, *)
(* carrying tmdb_movie_id, movie_title and year.  Nothing in this          *)
(* representation makes a tmdb_id or a (pair, movie) triple unique: that   *)
(* is left to the Cypher statements the code runs.                         *)
(***************************************************************************)
EXTENDS Integers, Sequences, FiniteSets, TLC

VARIABLES
    nodes,            \* the Actor nodes of the store
    rels,             \* the COSTARRED relationships of the store
    lastIngestedPage, \* the stored watermark, 0 when no record exists
    last,             \* the store call made last, with what it was given
    named,            \* tmdb_id -> name of the latest successful UpsertActor ("" if none)
    calls,            \* number of store calls made (SpecStore)
    http,             \* one fetch of the tmdb client: the state of its getHTTP call (SpecFetch)
    limiter,          \* the tmdb client's Limiter and the requests it let start (SpecLimiter)
    trail,            \* what the run has done in this page and since the signal (see NoTrail)
    pc,               \* position of the ingest run
    fresh,            \* this run started at page 1 on the empty store
    faults,           \* calls that failed for a reason other than cancellation, all runs
    cancelled,        \* ctx.Err() != nil: SIGINT/SIGTERM was delivered to this run
    late,             \* the signal came too late to fail the call in flight
    pagesFlag,        \* -pages
    allFlag,          \* -all
    down,             \* the provider cannot be reached: every request of this behaviour fails
    maxCastFlag,      \* -max-cast
    resumeFlag,       \* -resume
    firstPage,        \* main's firstPage
    lastPage,         \* main's lastPage
    page,             \* main's loop variable
    movies,           \* the movies of the page being processed
    idx,              \* index of the movie being processed (1-based)
    cast,             \* the cast fetched for movies[idx]
    setCalled,        \* page given to the latest SetLastIngestedPage call of this run, 0 if none
    ingestErr,        \* an IngestMovieCast of this page returned an error with ctx not cancelled
    cutPage,          \* the page this run had started, its movie loop not yet ended, when the signal came; else 0
    fetchFailed,      \* smallest page of this run whose catalog fetch failed with ctx not cancelled, 0 if none
    prevFetchFailed,  \* fetchFailed of the run before this one
    errs,             \* some call of this run failed for a reason other than cancellation
    prevCut,          \* the watermark at which the run before was interrupted, when that run
                      \* started at page 1 on the empty store and had no failure; else -1
    prevCutPage       \* cutPage of the run before this one

storeVars == <<nodes, rels, lastIngestedPage, last, named, calls>>
runVars == <<http, limiter, trail, pc, fresh, faults, cancelled, late, pagesFlag, allFlag, down, maxCastFlag, resumeFlag,
             firstPage, lastPage, page, movies, idx, cast, setCalled, ingestErr,
             cutPage, fetchFailed, prevFetchFailed, errs, prevCut, prevCutPage>>
vars == <<nodes, rels, lastIngestedPage, last, named, calls, http, limiter, trail,
          pc, fresh, faults, cancelled, late, pagesFlag, allFlag, down, maxCastFlag, resumeFlag,
          firstPage, lastPage, page, movies, idx, cast, setCalled, ingestErr,
          cutPage, fetchFailed, prevFetchFailed, errs, prevCut, prevCutPage>>

---------------------------------------------------------------------------
(* Bounds of the model. *)

MaxCalls == 2        \* store calls in one behaviour of SpecStore
MaxEdges == 3        \* CreateCostarEdge calls in one behaviour of SpecQuery
RetriesBound == 3    \* the largest MaxRetries a client is configured with
MaxFaults == 1       \* calls that fail for a reason other than cancellation, in one behaviour of Spec
TotalPages == 4      \* total_pages the provider reports
MaxPage == 6         \* a run starts at this page at the latest
MaxFetches == 8      \* GetPopularMovies calls of one run

ActorIds == 1..3     \* tmdb ids of actors
MovieIds == 1..2     \* tmdb ids of movies
Names == {"A", "B"}
Titles == {"T", "U"}
Years == {1999}

(* models.Actor and models.Movie *)
Actor(id, name) == [TmdbID |-> id, Name |-> name]
Movie(id, title, year) == [TmdbID |-> id, Title |-> title, Year |-> year]

---------------------------------------------------------------------------
(* The graph store: internal/graph/graph.go *)

Graph(N, R) == [nodes |-> N, rels |-> R]
EmptyGraph == Graph({}, {})

MatchActor(N, id) == {n \in N : n.tmdb_id = id}

(* A node created for an actor.  Its identity is new: nodes are never      *)
(* deleted, so the number of nodes with the same tmdb_id tells them apart. *)
NewNode(N, actor) ==
    [nid |-> <<actor.TmdbID, Cardinality(MatchActor(N, actor.TmdbID)) + 1>>,
     tmdb_id |-> actor.TmdbID, name |-> actor.Name]

(* UpsertActor with CREATE in place of MERGE. *)
UpsertActorCreate(G, actor) ==
    Graph(G.nodes \cup {NewNode(G.nodes, actor)}, G.rels)

(* MERGE (a:Actor {tmdb_id: $id}) SET a.name = $name *)
UpsertActor(G, actor) ==
    LET matched == MatchActor(G.nodes, actor.TmdbID)
        created == NewNode(G.nodes, actor)
        \* a SET of a.name keeps the node and its relationships
        setName(n) == IF n \in matched THEN [n EXCEPT !.name = actor.Name] ELSE n
    IN  IF matched = {}
        THEN Graph(G.nodes \cup {created}, G.rels)
        ELSE Graph({setName(n) : n \in G.nodes}, G.rels)

(* The rows of MATCH (a:Actor {tmdb_id: $idA}), (b:Actor {tmdb_id: $idB}) *)
MatchPair(N, actorA, actorB) ==
    {<<a.nid, b.nid>> : a \in MatchActor(N, actorA), b \in MatchActor(N, actorB)}

(* A relationship created for a row.  Its identity is new: relationships  *)
(* are never deleted, so the number of relationships with the same end     *)
(* points and movie id tells them apart.                                   *)
NewRel(R, row, movieID, year, title) ==
    [rid |-> <<row[1], row[2], movieID,
               Cardinality({r \in R : /\ r.src = row[1] /\ r.dst = row[2]
                                      /\ r.tmdb_movie_id = movieID}) + 1>>,
     src |-> row[1], dst |-> row[2],
     tmdb_movie_id |-> movieID, movie_title |-> title, year |-> year]

(* MergeRow with CREATE in place of MERGE. *)
MergeRowCreate(R, row, movieID, year, title) ==
    R \cup {NewRel(R, row, movieID, year, title)}

(* MergeRow with the movie id left out of the MERGE pattern and SET instead. *)
MergeRowAnyMovie(R, row, movieID, year, title) ==
    LET matched == {r \in R : r.src = row[1] /\ r.dst = row[2]}
        setProps(r) == IF r \in matched
                       THEN [r EXCEPT !.tmdb_movie_id = movieID,
                                      !.movie_title = title, !.year = year]
                       ELSE r
    IN  IF matched = {}
        THEN R \cup {NewRel(R, row, movieID, year, title)}
        ELSE {setProps(r) : r \in R}

(* MergeRow with the properties written only when the relationship is     *)
(* created (ON CREATE SET).                                                *)
MergeRowOnCreate(R, row, movieID, year, title) ==
    LET matched == {r \in R : /\ r.src = row[1] /\ r.dst = row[2]
                              /\ r.tmdb_movie_id = movieID}
    IN  IF matched = {} THEN R \cup {NewRel(R, row, movieID, year, title)} ELSE R

(* For one row (a, b):                                                     *)
(*   MERGE (a)-[r:COSTARRED {tmdb_movie_id: $movieID}]->(b)                *)
(*   SET r.movie_title = $title, r.year = $year                            *)
(* The pattern has a direction: only relationships from a to b match.      *)
MergeRow(R, row, movieID, year, title) ==
    LET matched == {r \in R : /\ r.src = row[1] /\ r.dst = row[2]
                              /\ r.tmdb_movie_id = movieID}
        setProps(r) == IF r \in matched
                       THEN [r EXCEPT !.movie_title = title, !.year = year]
                       ELSE r
    IN  IF matched = {}
        THEN R \cup {NewRel(R, row, movieID, year, title)}
        ELSE {setProps(r) : r \in R}

RECURSIVE MergeRows(_, _, _, _, _)
MergeRows(R, rows, movieID, year, title) ==
    IF rows = {} THEN R
    ELSE LET row == CHOOSE x \in rows : TRUE
         IN  MergeRows(MergeRow(R, row, movieID, year, title),
                       rows \ {row}, movieID, year, title)

(* CreateCostarEdge with $idA bound to both node patterns. *)
CreateCostarEdgeSameId(G, actorA, actorB, movieID, year, title) ==
    Graph(G.nodes,
          MergeRows(G.rels, MatchPair(G.nodes, actorA, actorA), movieID, year, title))

(* CreateCostarEdge(ctx, actorA, actorB, movieID, year, title): no row, no write. *)
CreateCostarEdge(G, actorA, actorB, movieID, year, title) ==
    Graph(G.nodes,
          MergeRows(G.rels, MatchPair(G.nodes, actorA, actorB), movieID, year, title))

---------------------------------------------------------------------------
(* ShortestPath: graph.go 115-157                                          *)

NodeAt(N, nid) == CHOOSE n \in N : n.nid = nid

(* A step of the answer: an actor, or the movie of a relationship. *)
NoActor == [TmdbID |-> 0, Name |-> ""]
ActorStep(n) == [Actor |-> [TmdbID |-> n.tmdb_id, Name |-> n.name],
                 MovieTitle |-> "", MovieYear |-> 0]
MovieStep(r) == [Actor |-> NoActor, MovieTitle |-> r.movie_title, MovieYear |-> r.year]

(* The pattern -[:COSTARRED]-> : a relationship is followed from its start node only. *)
HopsDirected(R, x) == {<<r, r.dst>> : r \in {q \in R : q.src = x}}

(* The pattern (a)-[:COSTARRED*]-(b) has no direction: a relationship is   *)
(* followed from either of its end nodes.  A hop is <<relationship, node reached>>. *)
Hops(R, x) ==
    {<<r, r.dst>> : r \in {q \in R : q.src = x}}
    \cup {<<r, r.src>> : r \in {q \in R : q.dst = x}}

Last(s) == s[Len(s)]

(* The paths of n relationships that start at node x; a relationship       *)
(* occurs once in a path.  A path is its node ids and its relationships.   *)
RECURSIVE PathsFrom(_, _, _)
PathsFrom(R, x, n) ==
    IF n = 0 THEN {[ns |-> <<x>>, rs |-> <<>>]}
    ELSE UNION {{[ns |-> Append(p.ns, h[2]), rs |-> Append(p.rs, h[1])] :
                    h \in {g \in Hops(R, Last(p.ns)) :
                             \A i \in 1..Len(p.rs) : p.rs[i] # g[1]}} :
                p \in PathsFrom(R, x, n - 1)}

(* The paths of n relationships from x to y. *)
PathsBetween(R, x, y, n) == {p \in PathsFrom(R, x, n) : Last(p.ns) = y}

(* shortestPath(...): the paths from x to y of the least length, x # y. *)
RECURSIVE ShortestFrom(_, _, _, _, _)
ShortestFrom(R, x, y, n, max) ==
    IF n > max THEN {}
    ELSE IF PathsBetween(R, x, y, n) # {} THEN PathsBetween(R, x, y, n)
    ELSE ShortestFrom(R, x, y, n + 1, max)

(* graph.go 141-154: the actors of the path with the movies between them. *)
RECURSIVE Steps(_, _, _)
Steps(G, p, i) ==
    IF i = 0 THEN <<>>
    ELSE Steps(G, p, i - 1)
         \o <<ActorStep(NodeAt(G.nodes, p.ns[i]))>>
         \o (IF i <= Len(p.rs) THEN <<MovieStep(p.rs[i])>> ELSE <<>>)

(* What a query returns: its value and whether its error is nil. *)
Answer(value) == [value |-> value, err |-> FALSE]
Failure == [value |-> <<>>, err |-> TRUE]

(* graph.go 131-134 with the error of result.Single handed on. *)
NoRecordIsError == Failure

(* graph.go 131-134: no single record, "no path found": nil, nil. *)
NoRecord == Answer(<<>>)

(* The answers ShortestPath(ctx, actorA, actorB) can give when session.Run *)
(* returns no error and the store does not fail while the result is read.  *)
(* The query has one record for each pair of matched nodes with a path,    *)
(* holding one of the shortest paths.  With one node for both ends the     *)
(* database either refuses shortestPath or answers the path without        *)
(* relationships, according to its settings; a refusal that arrives with   *)
(* the record is answered here, one that arrives with Run is a failure of  *)
(* Run (ShortestPathOn).                                                   *)
ShortestPath(G, actorA, actorB) ==
    LET pairs == {<<a.nid, b.nid>> : a \in MatchActor(G.nodes, actorA),
                                     b \in MatchActor(G.nodes, actorB)}
        found(row) == ShortestFrom(G.rels, row[1], row[2], 1, Cardinality(G.nodes))
        rows == {row \in pairs : row[1] # row[2] /\ found(row) # {}}
        same == {row \in pairs : row[1] = row[2]}
    IN  IF same # {}
        THEN {NoRecord}
             \cup {Answer(Steps(G, [ns |-> <<row[1]>>, rs |-> <<>>], 1)) : row \in same}
        ELSE IF Cardinality(rows) # 1
        THEN {NoRecord}
        ELSE UNION {{Answer(Steps(G, p, Len(p.ns))) : p \in found(row)} : row \in rows}

(* Where a call of ShortestPath meets a failure of the store: in           *)
(* session.Run, while result.Single reads the record, or nowhere.          *)
Failures == {"none", "run", "read"}

(* graph.go 126-134: the error of session.Run is returned; the error of    *)
(* result.Single, whatever its cause, is answered as no path.              *)
ShortestPathOn(G, actorA, actorB, failure) ==
    CASE failure = "run" -> {Failure}
      [] failure = "read" -> {NoRecord}
      [] OTHER -> ShortestPath(G, actorA, actorB)

---------------------------------------------------------------------------
(* GetStats: graph.go 193-233                                              *)

(* OPTIONAL MATCH: a row for every match, or one row of nulls when nothing *)
(* matches.  A row is <<x>>, the row of nulls is <<>>.                     *)
OptionalMatch(S) == IF S = {} THEN {<<>>} ELSE {<<x>> : x \in S}

(* A count of rows: every row is counted, the row of nulls too. *)
CountRows(rows) == Cardinality(rows)

(* count(x): the rows where x is not null. *)
Count(rows) == Cardinality({row \in rows : row # <<>>})

(* The pattern (a:Actor)-[r:COSTARRED]-() : r leaves a or enters a; a      *)
(* relationship from a to a is one match.                                  *)
Incident(G) == {p \in G.nodes \X G.rels : p[2].src = p[1].nid \/ p[2].dst = p[1].nid}

(* The records the query of graph.go 194-203 can return: the two totals,   *)
(* and of the rows (a, count(r)) one with the largest count (ORDER BY rels *)
(* DESC LIMIT 1).  topActor is <<a.name>>, or <<>> when a is null.         *)
StatsRecords(G) ==
    LET actorCount == Count(OptionalMatch(G.nodes))
        edgeCount == Count(OptionalMatch(G.rels))
        rows == OptionalMatch(Incident(G))
        key(row) == IF row = <<>> THEN <<>> ELSE <<row[1][1]>>
        group(k) == {row \in rows : key(row) = k}
        grouped == {[a |-> k, rels |-> Count(group(k))] : k \in {key(row) : row \in rows}}
        top == {g \in grouped : \A h \in grouped : h.rels <= g.rels}
    IN  {[actorCount |-> actorCount, edgeCount |-> edgeCount,
          topActor |-> IF g.a = <<>> THEN <<>> ELSE <<g.a[1].name>>,
          topCount |-> g.rels] : g \in top}

(* &Stats{} *)
NoStats == [ActorCount |-> 0, EdgeCount |-> 0, MostConnectedActor |-> "",
            MostConnectedCount |-> 0]

(* graph.go 219-230: the Stats of a record. *)
StatsOf(record) ==
    [ActorCount |-> record.actorCount,
     EdgeCount |-> record.edgeCount,
     MostConnectedActor |-> IF record.topActor # <<>> THEN record.topActor[1] ELSE "",
     MostConnectedCount |-> IF record.topActor # <<>> THEN record.topCount ELSE 0]

(* The answers GetStats(ctx) can give when session.Run returns no error:   *)
(* the Stats of the record, or, when result.Single returns an error (the   *)
(* record could not be read), &Stats{} with a nil error (graph.go 214-217). *)
GetStats(G) ==
    {Answer(StatsOf(record)) : record \in StatsRecords(G)} \cup {Answer(NoStats)}

---------------------------------------------------------------------------
(* IngestMovieCast, GetLastIngestedPage and SetLastIngestedPage belong to  *)
(* package graph but their file is not among the sources; they are taken   *)
(* from their callers, their tests and the design text: upsert every       *)
(* member of the cast, then one CreateCostarEdge per unordered pair of the *)
(* list, in list order, attributed to the movie.                           *)

(* The pairs (i, j), i < j, of 1..k in lexicographic order. *)
PairSeq(k) ==
    SelectSeq([n \in 1..(k * k) |-> <<((n - 1) \div k) + 1, ((n - 1) % k) + 1>>],
              LAMBDA p : p[1] < p[2])

(* The store calls one IngestMovieCast makes, in order. *)
IngestOps(movie, members) ==
    LET k == Len(members)
        pairs == PairSeq(k)
    IN  [i \in 1..k |-> [op |-> "actor", actor |-> members[i]]]
        \o [i \in 1..Len(pairs) |->
               [op |-> "edge", a |-> members[pairs[i][1]].TmdbID,
                b |-> members[pairs[i][2]].TmdbID]]

ApplyOp(G, movie, o) ==
    IF o.op = "actor"
    THEN UpsertActor(G, o.actor)
    ELSE CreateCostarEdge(G, o.a, o.b, movie.TmdbID, movie.Year, movie.Title)

RECURSIVE ApplyOps(_, _, _, _)
ApplyOps(G, movie, ops, n) ==
    IF n = 0 THEN G
    ELSE ApplyOp(ApplyOps(G, movie, ops, n - 1), movie, ops[n])

(* The store after an IngestMovieCast that stopped after its first n calls. *)
IngestPrefix(G, movie, members, n) == ApplyOps(G, movie, IngestOps(movie, members), n)

(* The store after an IngestMovieCast that returned nil. *)
IngestMovieCast(G, movie, members) ==
    IngestPrefix(G, movie, members, Len(IngestOps(movie, members)))

(* GetLastIngestedPage: 0 when no record was stored. *)
GetLastIngestedPage(w) == w

(* A watermark that only ever grows. *)
SetLastIngestedPageMax(w, p) == IF p > w THEN p ELSE w

(* SetLastIngestedPage: one record, overwritten. *)
SetLastIngestedPage(w, p) == p

---------------------------------------------------------------------------
(* What a caller can observe of the store. *)

NodeOf(N, nid) == CHOOSE n \in N : n.nid = nid

(* The relationships of movie m from an actor with tmdb_id a to one with tmdb_id b. *)
RelsFromTo(G, a, b, m) ==
    {r \in G.rels : /\ NodeOf(G.nodes, r.src).tmdb_id = a
                    /\ NodeOf(G.nodes, r.dst).tmdb_id = b
                    /\ r.tmdb_movie_id = m}

(* The relationships of movie m between a and b, in either direction. *)
RelsBetween(G, a, b, m) == RelsFromTo(G, a, b, m) \cup RelsFromTo(G, b, a, m)

(* A relationship as its end points' tmdb ids and its properties. *)
RelView(G, r) ==
    [src |-> NodeOf(G.nodes, r.src).tmdb_id, dst |-> NodeOf(G.nodes, r.dst).tmdb_id,
     tmdb_movie_id |-> r.tmdb_movie_id, movie_title |-> r.movie_title, year |-> r.year]

NodeView(n) == [tmdb_id |-> n.tmdb_id, name |-> n.name]

(* The graph without the store's internal identities. *)
GraphView(G) ==
    [nodes |-> {NodeView(n) : n \in G.nodes},
     rels |-> {RelView(G, r) : r \in G.rels}]

Store == Graph(nodes, rels)

---------------------------------------------------------------------------
(* SpecStore: the store driven directly, one call after another.           *)

NoCall == [op |-> "none", ok |-> TRUE, a |-> 0, b |-> 0, m |-> 0, title |-> "",
           year |-> 0, name |-> "", members |-> <<>>,
           preNodes |-> 0, preRels |-> 0, preTriple |-> 0, preTitles |-> {},
           preNames |-> {}, preHas |-> FALSE, ran |-> TRUE, result |-> <<>>,
           failedAt |-> "none"]

(* The store already holds what IngestMovieCast(movie m, cast ids) writes:  *)
(* a node for every member and a relationship of movie m for every pair.   *)
Ingested(G, m, ids) ==
    /\ \A i \in 1..Len(ids) : MatchActor(G.nodes, ids[i]) # {}
    /\ \A i, j \in 1..Len(ids) : i < j => RelsFromTo(G, ids[i], ids[j], m) # {}

(* What the call about to be made finds in the store. *)
Pre(G, a, b, m, ids) ==
    [preNodes |-> Cardinality(G.nodes), preRels |-> Cardinality(G.rels),
     preTriple |-> Cardinality(RelsFromTo(G, a, b, m)),
     preTitles |-> {r.movie_title : r \in RelsFromTo(G, a, b, m)},
     preNames |-> {n.name : n \in MatchActor(G.nodes, a)},
     preHas |-> (ids # <<>> /\ Ingested(G, m, ids))]

Call(G, op, ok, a, b, m, title, year, name, members) ==
    LET p == Pre(G, a, b, m, members)
    IN  [op |-> op, ok |-> ok, a |-> a, b |-> b, m |-> m, title |-> title,
         year |-> year, name |-> name, members |-> members,
         preNodes |-> p.preNodes, preRels |-> p.preRels, preTriple |-> p.preTriple,
         preTitles |-> p.preTitles, preNames |-> p.preNames, preHas |-> p.preHas,
         ran |-> TRUE, result |-> <<>>, failedAt |-> "none"]

(* No fetch is going on. *)
NoFetch == [pc |-> "idle", maxRetries |-> 0, attempt |-> 0, tokens |-> 0, remaining |-> 0,
            requests |-> 0, throttled |-> 0, netErrs |-> 0, sleeps |-> 0,
            res |-> "none", body |-> "none", ret |-> "none",
            ctxDone |-> FALSE, cancelAt |-> "none", cancelBlocked |-> FALSE,
            cancelRequests |-> 0, lateTicks |-> 0, taken |-> 0, slept |-> <<>>]

(* The limiter is not looked at. *)
NoLimiter == [tokens |-> 0, open |-> FALSE, elapsed |-> 0, started |-> 0]

(* The record of a run that has done nothing yet. *)
NoTrail ==
    [tried |-> {},          \* this page: the movies (by index) GetMovieCast was called for
     done |-> {},           \* this page: the movies IngestMovieCast returned nil for
     failed |-> {},         \* this page: the movies skipped for a failure other than cancellation
     bare |-> {},           \* this page: the movies whose cast came from an error status, empty
     firstDown |-> FALSE,   \* this page: the first IngestMovieCast failed, nothing written yet
     castAfterDown |-> FALSE, \* this page: GetMovieCast was called after firstDown
     ctxDoneAt91 |-> FALSE, \* this movie: ctx was done before IngestMovieCast was called
     cutIdx |-> 0,          \* the movie in process when the signal came, else 0
     begunAfter |-> FALSE,  \* a page was begun after the signal
     sentAfter |-> FALSE,   \* a fetch begun after the signal was answered
     ingestAfter |-> FALSE, \* IngestMovieCast was called with ctx done
     ingestOther |-> FALSE, \* IngestMovieCast was called after the signal for another
                            \* movie than the one in process when the signal came
     stepsAfter |-> 0,      \* steps of the run since the signal
     reads |-> 0,           \* GetLastIngestedPage calls of this run
     fetchedPage |-> 0,     \* the page of the latest GetPopularMovies call of this run, 0 if none
     decided |-> FALSE,     \* the page fetched last is over: its fetch failed, or its movie
                            \* loop has ended and main.go 99 has been passed
     fetches |-> 0,         \* GetPopularMovies calls of this run
     total |-> -1,          \* total_pages of the latest page fetched, -1 if none
     wrote |-> FALSE]       \* this run made a store call that writes

(* The ingest run's variables, at rest while the store is driven directly. *)
RunAtRest ==
    /\ http = NoFetch
    /\ limiter = NoLimiter
    /\ trail = NoTrail
    /\ pc = "store" /\ fresh = FALSE /\ faults = 0 /\ cancelled = FALSE /\ late = FALSE
    /\ pagesFlag = 0 /\ allFlag = FALSE /\ down = FALSE /\ maxCastFlag = 0 /\ resumeFlag = FALSE
    /\ firstPage = 0 /\ lastPage = 0 /\ page = 0
    /\ movies = <<>> /\ idx = 0 /\ cast = <<>>
    /\ setCalled = 0 /\ ingestErr = FALSE /\ cutPage = 0
    /\ fetchFailed = 0 /\ prevFetchFailed = 0 /\ errs = FALSE /\ prevCut = -1 /\ prevCutPage = 0

RECURSIVE UpsertAll(_, _, _)
UpsertAll(G, ids, name) ==
    IF ids = {} THEN G
    ELSE LET id == CHOOSE x \in ids : \A y \in ids : x <= y
         IN  UpsertAll(UpsertActor(G, Actor(id, name)), ids \ {id}, name)

(* The store after SetupSchema and the upsert of some actors. *)
InitStore ==
    /\ \E S \in SUBSET ActorIds :
          /\ nodes = UpsertAll(EmptyGraph, S, "A").nodes
          /\ named = [id \in ActorIds |-> IF id \in S THEN "A" ELSE ""]
    /\ rels = {}
    /\ lastIngestedPage = 0
    /\ last = NoCall
    /\ calls = 0
    /\ RunAtRest

(* The cast lists given to IngestMovieCast directly: distinct ids, in     *)
(* ascending or in descending order.                                       *)
CastIdLists ==
    {<<>>} \cup {<<a>> : a \in ActorIds}
    \cup {s \in ActorIds \X ActorIds : s[1] # s[2]}
    \cup {<<1, 2, 3>>, <<3, 2, 1>>}

(* The movies given to IngestMovieCast directly. *)
Catalog == {Movie(1, "T", 1999), Movie(2, "U", 1999)}

StoreUpsertActor ==
    /\ calls < MaxCalls
    /\ \E id \in ActorIds, name \in Names :
          LET G == UpsertActor(Store, Actor(id, name))
          IN  /\ nodes' = G.nodes
              /\ rels' = G.rels
              /\ named' = [named EXCEPT ![id] = name]
              /\ last' = Call(Store, "UpsertActor", TRUE, id, 0, 0, "", 0, name, <<>>)
    /\ calls' = calls + 1
    /\ UNCHANGED <<lastIngestedPage, runVars>>

StoreCreateCostarEdge ==
    /\ calls < MaxCalls
    /\ \E a \in ActorIds, b \in ActorIds, m \in MovieIds,
          title \in Titles, year \in Years :
          LET G == CreateCostarEdge(Store, a, b, m, year, title)
          IN  /\ nodes' = G.nodes
              /\ rels' = G.rels
              /\ last' = Call(Store, "CreateCostarEdge", TRUE, a, b, m, title, year, "", <<>>)
    /\ calls' = calls + 1
    /\ UNCHANGED <<lastIngestedPage, named, runVars>>

(* named after the upserts of an IngestMovieCast. *)
RECURSIVE NamedAfter(_, _, _)
NamedAfter(nm, members, n) ==
    IF n = 0 THEN nm
    ELSE [NamedAfter(nm, members, n - 1) EXCEPT ![members[n].TmdbID] = members[n].Name]

StoreIngestMovieCast ==
    /\ calls < MaxCalls
    /\ \E movie \in Catalog, ids \in CastIdLists :
          LET members == [i \in 1..Len(ids) |-> Actor(ids[i], "B")]
              G == IngestMovieCast(Store, movie, members)
          IN  /\ nodes' = G.nodes
              /\ rels' = G.rels
              /\ named' = NamedAfter(named, members, Len(members))
              /\ last' = Call(Store, "IngestMovieCast", TRUE, 0, 0, movie.TmdbID,
                              movie.Title, movie.Year, "B", ids)
    /\ calls' = calls + 1
    /\ UNCHANGED <<lastIngestedPage, runVars>>

(* session.Run returns an error: the call returns it and has written nothing. *)
StoreCallFails ==
    /\ calls < MaxCalls
    /\ last' = [NoCall EXCEPT !.op = "failed", !.ok = FALSE]
    /\ calls' = calls + 1
    /\ UNCHANGED <<nodes, rels, lastIngestedPage, named, runVars>>

NextStore ==
    \/ StoreUpsertActor
    \/ StoreCreateCostarEdge
    \/ StoreIngestMovieCast
    \/ StoreCallFails

SpecStore == InitStore /\ [][NextStore]_vars

---------------------------------------------------------------------------
(* SpecQuery: a store of some actors and up to MaxEdges CreateCostarEdge   *)
(* calls, and the read queries on it.                                      *)

TitleOf(m) == IF m = 1 THEN "T" ELSE "U"

QueryCreateCostarEdge ==
    /\ calls < MaxEdges
    /\ \E a \in ActorIds, b \in ActorIds, m \in MovieIds :
          LET G == CreateCostarEdge(Store, a, b, m, 1999, TitleOf(m))
          IN  /\ nodes' = G.nodes
              /\ rels' = G.rels
    /\ last' = NoCall
    /\ calls' = calls + 1
    /\ UNCHANGED <<lastIngestedPage, named, runVars>>

(* ShortestPath is called; session.Run returns an error (graph.go 126-129),  *)
(* or result.Single does (131-134), or the query is run and its result     *)
(* read: ran.                                                              *)
QueryShortestPath ==
    /\ \E a \in ActorIds, b \in ActorIds :
          \E at \in Failures :
             \E out \in ShortestPathOn(Store, a, b, at) :
                last' = [NoCall EXCEPT !.op = "ShortestPath", !.ran = (at = "none"),
                                       !.ok = ~out.err, !.failedAt = at,
                                       !.a = a, !.b = b, !.result = out.value]
    /\ UNCHANGED <<nodes, rels, lastIngestedPage, named, calls, runVars>>

NextQuery ==
    \/ QueryCreateCostarEdge
    \/ QueryShortestPath

SpecQuery == InitStore /\ [][NextQuery]_vars

---------------------------------------------------------------------------
(* degreesHandler: handler.go 110-146, for a request whose a and b are     *)
(* numbers.                                                                *)

(* handler.go 22-26 *)
pathResult(steps, degrees, sameActor) ==
    [Steps |-> steps, Degrees |-> degrees, SameActor |-> sameActor]

(* handler.go 141-144 with the length rounded up. *)
DegreesOfRoundedUp(pathStep) ==
    IF Len(pathStep) > 1 THEN (Len(pathStep) + 1) \div 2 ELSE 0

(* handler.go 141-144: deg = (len(pathStep) - 1) / 2 when len(pathStep) > 1 *)
DegreesOf(pathStep) ==
    IF Len(pathStep) > 1 THEN (Len(pathStep) - 1) \div 2 ELSE 0

(* What the handler answers: the fragment rendered with a pathResult, or   *)
(* the status 500; called tells whether ShortestPath was called, with or   *)
(* without a failure of the store.                                         *)
degreesHandler(G, idA, idB) ==
    IF idA = idB
    THEN {[status |-> 200, data |-> pathResult(<<>>, 0, TRUE), called |-> FALSE]}
    ELSE {IF out.err
          THEN [status |-> 500, data |-> pathResult(<<>>, 0, FALSE), called |-> TRUE]
          ELSE [status |-> 200, data |-> pathResult(out.value, DegreesOf(out.value), FALSE),
                called |-> TRUE] :
          out \in UNION {ShortestPathOn(G, idA, idB, at) : at \in Failures}}

(* SpecHandler: a store of some actors and up to MaxEdges CreateCostarEdge *)
(* calls, and requests to /degrees on it.                                  *)
HandleDegrees ==
    /\ \E a \in ActorIds, b \in ActorIds :
          \E answer \in degreesHandler(Store, a, b) :
             last' = [NoCall EXCEPT !.op = "degreesHandler", !.ran = answer.called,
                                    !.ok = (answer.status = 200),
                                    !.a = a, !.b = b, !.result = <<answer.data>>]
    /\ UNCHANGED <<nodes, rels, lastIngestedPage, named, calls, runVars>>

NextHandler ==
    \/ QueryCreateCostarEdge
    \/ HandleDegrees

SpecHandler == InitStore /\ [][NextHandler]_vars

---------------------------------------------------------------------------
(* SpecWatermark: the watermark record written and read directly, as the   *)
(* store's tests do.  last.a keeps the page of the latest                  *)
(* SetLastIngestedPage that returned nil, 0 when there was none, and       *)
(* last.m the largest page so set.                                         *)

MaxSets == 2

WatermarkSet ==
    /\ calls < MaxSets
    /\ \E p \in 1..MaxPage, ok \in BOOLEAN :
          /\ lastIngestedPage' = IF ok THEN SetLastIngestedPage(lastIngestedPage, p)
                                       ELSE lastIngestedPage
          /\ last' = [NoCall EXCEPT !.op = "SetLastIngestedPage", !.ok = ok,
                                    !.a = IF ok THEN p ELSE last.a, !.b = p,
                                    !.m = IF ok /\ p > last.m THEN p ELSE last.m]
    /\ calls' = calls + 1
    /\ UNCHANGED <<nodes, rels, named, runVars>>

WatermarkGet ==
    /\ \E ok \in BOOLEAN :
          last' = [NoCall EXCEPT !.op = "GetLastIngestedPage", !.ok = ok, !.a = last.a,
                                 !.m = last.m,
                                 !.result = IF ok THEN <<GetLastIngestedPage(lastIngestedPage)>>
                                                  ELSE <<0>>]
    /\ UNCHANGED <<nodes, rels, lastIngestedPage, named, calls, runVars>>

NextWatermark ==
    \/ WatermarkSet
    \/ WatermarkGet

SpecWatermark == InitStore /\ [][NextWatermark]_vars

---------------------------------------------------------------------------
(* SpecStats: a store of some named actors and up to MaxEdges              *)
(* CreateCostarEdge calls, and GetStats on it.                             *)

RECURSIVE UpsertNamed(_, _, _)
UpsertNamed(G, ids, name) ==
    IF ids = {} THEN G
    ELSE LET id == CHOOSE x \in ids : \A y \in ids : x <= y
         IN  UpsertNamed(UpsertActor(G, Actor(id, name[id])), ids \ {id}, name)

(* The store after SetupSchema and the upsert of some actors with their names. *)
InitStats ==
    /\ \E S \in SUBSET ActorIds :
          \E name \in [S -> Names] :
             /\ nodes = UpsertNamed(EmptyGraph, S, name).nodes
             /\ named = [id \in ActorIds |-> IF id \in S THEN name[id] ELSE ""]
    /\ rels = {}
    /\ lastIngestedPage = 0
    /\ last = NoCall
    /\ calls = 0
    /\ RunAtRest

(* GetStats is called; session.Run returns an error (graph.go 208-211) or  *)
(* the query is run.                                                       *)
StatsGetStats ==
    /\ \E ran \in BOOLEAN :
          \E out \in (IF ran THEN GetStats(Store) ELSE {Failure}) :
             last' = [NoCall EXCEPT !.op = "GetStats", !.ran = ran, !.ok = ~out.err,
                                    !.result = <<out.value>>]
    /\ UNCHANGED <<nodes, rels, lastIngestedPage, named, calls, runVars>>

NextStats ==
    \/ QueryCreateCostarEdge
    \/ StatsGetStats

SpecStats == InitStats /\ [][NextStats]_vars

---------------------------------------------------------------------------
(* SpecFetch: one fetch of the tmdb client, tmdb/client.go getHTTP and its *)
(* caller's decoding.  Time is counted in ticks; it passes only while the  *)
(* call is blocked.                                                        *)

BaseBackoff == 1     \* c.BaseBackoff, in ticks
Burst == 1           \* the burst of c.Limiter, in tokens

RECURSIVE Shl(_, _)
Shl(x, n) == IF n = 0 THEN x ELSE Shl(2 * x, n - 1)

(* What the server or the network answers to a request. *)
Answers == {"ok", "garbled", "status", "throttle", "neterr"}

InitFetch ==
    /\ nodes = {} /\ rels = {} /\ lastIngestedPage = 0
    /\ last = NoCall
    /\ named = [id \in ActorIds |-> ""]
    /\ calls = 0
    /\ limiter = NoLimiter
    /\ trail = NoTrail
    /\ pc = "fetch" /\ fresh = FALSE /\ faults = 0 /\ cancelled = FALSE /\ late = FALSE
    /\ pagesFlag = 0 /\ allFlag = FALSE /\ down = FALSE /\ maxCastFlag = 0 /\ resumeFlag = FALSE
    /\ firstPage = 0 /\ lastPage = 0 /\ page = 0
    /\ movies = <<>> /\ idx = 0 /\ cast = <<>>
    /\ setCalled = 0 /\ ingestErr = FALSE /\ cutPage = 0
    /\ fetchFailed = 0 /\ prevFetchFailed = 0 /\ errs = FALSE /\ prevCut = -1 /\ prevCutPage = 0
    /\ \E mr \in 0..RetriesBound, t \in 0..Burst :
          http = [NoFetch EXCEPT !.pc = "loop", !.maxRetries = mr, !.tokens = t]

notHttp == <<nodes, rels, lastIngestedPage, last, named, calls, limiter, trail,
             pc, fresh, faults, cancelled, late, pagesFlag, allFlag, down, maxCastFlag, resumeFlag,
             firstPage, lastPage, page, movies, idx, cast, setCalled, ingestErr,
             cutPage, fetchFailed, prevFetchFailed, errs, prevCut, prevCutPage>>

(* line 124 with one attempt too many. *)
MoreAttemptsOneMore == http.attempt <= http.maxRetries

(* line 124: for attempt := range c.MaxRetries *)
MoreAttempts == http.attempt < http.maxRetries

(* lines 124, 155: the next attempt, or the error of exhausted retries. *)
LoopTop ==
    /\ http.pc = "loop"
    /\ http' = IF MoreAttempts
               THEN [http EXCEPT !.pc = "wait"]
               ELSE [http EXCEPT !.pc = "done", !.res = "exhausted"]
    /\ UNCHANGED notHttp

(* lines 124-127 with Limiter.Wait before the first attempt only. *)
WaitsFirstAttemptOnly == http.attempt = 0

(* lines 124-127: Limiter.Wait is the first statement of the loop body, so *)
(* it is called before every attempt.                                      *)
WaitsEveryAttempt == TRUE

(* lines 125-127: Limiter.Wait(ctx) returns the error of a done ctx at     *)
(* once, takes a token when there is one, and blocks otherwise.            *)
LimiterWait ==
    /\ http.pc = "wait"
    /\ IF WaitsEveryAttempt
       THEN \/ /\ http.ctxDone
               /\ http' = [http EXCEPT !.pc = "done", !.res = "limiter"]
            \/ /\ ~http.ctxDone
               /\ http.tokens > 0
               /\ http' = [http EXCEPT !.pc = "send", !.tokens = @ - 1, !.taken = @ + 1]
       ELSE http' = [http EXCEPT !.pc = "send"]
    /\ UNCHANGED notHttp

(* The limiter gains a token while Wait is blocked. *)
Refill ==
    /\ WaitsEveryAttempt
    /\ http.pc = "wait" /\ http.tokens = 0 /\ ~http.ctxDone
    /\ http.tokens < Burst
    /\ http' = [http EXCEPT !.tokens = @ + 1]
    /\ UNCHANGED notHttp

(* lines 129-135: the request is made with ctx and handed to the client;   *)
(* with ctx done the client returns an error and nothing is sent.          *)
Send ==
    /\ http.pc = "send"
    /\ http' = IF http.ctxDone
               THEN [http EXCEPT !.pc = "done", !.res = "transport"]
               ELSE [http EXCEPT !.pc = "inflight", !.requests = @ + 1]
    /\ UNCHANGED notHttp

(* line 140 with a retry for a transport error as well. *)
RetriedAlsoOnError(answer) == answer \in {"throttle", "neterr"}

(* line 140: only the status 429 goes on to the backoff. *)
Retried(answer) == answer = "throttle"

(* lines 135-146: the answer to the request in flight. *)
Receive ==
    /\ http.pc = "inflight"
    /\ \E answer \in Answers :
          LET seen == [http EXCEPT
                         !.throttled = IF answer = "throttle" THEN @ + 1 ELSE @,
                         !.netErrs = IF answer = "neterr" THEN @ + 1 ELSE @]
          IN  http' = IF Retried(answer)
                      THEN [seen EXCEPT !.pc = "backoff",
                                        !.remaining = Shl(BaseBackoff, http.attempt),
                                        !.slept = Append(@, Shl(BaseBackoff, http.attempt))]
                      ELSE IF answer = "neterr"
                      THEN [seen EXCEPT !.pc = "done", !.res = "transport"]
                      ELSE [seen EXCEPT !.pc = "done", !.res = "resp", !.body = answer]
    /\ UNCHANGED notHttp

(* lines 147-150 with a sleep that does not look at ctx. *)
SleepIgnoresCtx == FALSE

(* lines 147-150: case <-ctx.Done() *)
SleepSeesCtx == http.ctxDone

(* A tick of the backoff timer passes while the select is blocked. *)
Tick ==
    /\ http.pc = "backoff" /\ http.remaining > 0 /\ ~SleepSeesCtx
    /\ http' = [http EXCEPT !.remaining = @ - 1,
                            !.lateTicks = IF http.ctxDone THEN @ + 1 ELSE @]
    /\ UNCHANGED notHttp

(* lines 151-153: case <-timer.C, on to the next attempt. *)
TimerFires ==
    /\ http.pc = "backoff" /\ http.remaining = 0
    /\ http' = [http EXCEPT !.pc = "loop", !.attempt = @ + 1, !.sleeps = @ + 1]
    /\ UNCHANGED notHttp

(* lines 148-150: return nil, ctx.Err() *)
BackoffCancelled ==
    /\ http.pc = "backoff" /\ SleepSeesCtx
    /\ http' = [http EXCEPT !.pc = "done", !.res = "ctx"]
    /\ UNCHANGED notHttp

(* GetPopularMovies 66-86 and GetMovieCast 91-111: the error of getHTTP is *)
(* returned, or the body is decoded and its failure returned.              *)
Decode ==
    /\ http.pc = "done"
    /\ http' = [http EXCEPT !.pc = "returned",
                            !.ret = IF http.res # "resp" THEN "error"
                                    ELSE IF http.body = "garbled" THEN "decode"
                                    ELSE "value"]
    /\ UNCHANGED notHttp

(* The caller's ctx is cancelled, at any moment of the call. *)
CancelFetch ==
    /\ http.pc \notin {"done", "returned"} /\ ~http.ctxDone
    /\ http' = [http EXCEPT
                  !.ctxDone = TRUE,
                  !.cancelAt = IF http.pc = "loop" /\ http.attempt = 0 THEN "call" ELSE http.pc,
                  !.cancelBlocked = \/ http.pc = "wait" /\ http.tokens = 0
                                    \/ http.pc = "backoff" /\ http.remaining > 0,
                  !.cancelRequests = http.requests]
    /\ UNCHANGED notHttp

NextFetch ==
    \/ LoopTop
    \/ LimiterWait
    \/ Refill
    \/ Send
    \/ Receive
    \/ Tick
    \/ TimerFires
    \/ BackoffCancelled
    \/ Decode
    \/ CancelFetch

SpecFetch == InitFetch /\ [][NextFetch]_vars

---------------------------------------------------------------------------
(* The metadata provider, as the ingest run sees it.                       *)

MaxInt == 2147483647  \* stands for math.MaxInt: larger than any page number met

(* The provider's catalog: the movies of page p, none past the last page. *)
PageMovies(p) ==
    CASE p = 1 -> <<Movie(1, "T", 1999)>>
      [] p = 2 -> <<Movie(2, "U", 1999)>>
      [] p = 3 -> <<Movie(1, "T", 1999)>>
      [] p = 4 -> <<Movie(3, "V", 2001), Movie(2, "U", 1999)>>
      [] p > 4 /\ p <= TotalPages -> <<Movie(2, "U", 1999)>>
      [] OTHER -> <<>>

(* The provider's cast list of a movie, in billing order. *)
ProviderCast(m) ==
    CASE m = 1 -> <<Actor(1, "A"), Actor(2, "A")>>
      [] m = 2 -> <<Actor(2, "A"), Actor(3, "A")>>
      [] m = 3 -> <<Actor(3, "A"), Actor(1, "B"), Actor(2, "A")>>
      [] OTHER -> <<>>

(* GetMovieCast's result for a decoded cast list: its first maxCast members, *)
(* all of them when there are fewer.                                       *)
GetMovieCast(members, maxCast) ==
    LET n == IF maxCast > Len(members) THEN Len(members) ELSE maxCast
    IN  SubSeq(members, 1, n)

(* GetMovieCast 102-104 with the cap left out. *)
CapCastAll(maxCast, n) == n

(* GetMovieCast 102-104: maxCast, lowered to the length of the list. *)
CapCast(maxCast, n) == IF maxCast > n THEN n ELSE maxCast

(* GetMovieCast 97-111 on the decoded body: the first maxCast entries of   *)
(* apiResp.Cast, each castResult turned into a models.Actor.               *)
CastActors(apiCast, maxCast) ==
    [i \in 1..CapCast(maxCast, Len(apiCast)) |-> Actor(apiCast[i].id, apiCast[i].name)]

---------------------------------------------------------------------------
(* SpecCast: GetMovieCast on the cast lists a provider can answer.         *)

MaxCastLen == 3      \* the longest cast list of the provider
MaxCap == 4          \* the largest maxCast given

castResult == [id : ActorIds, name : Names]

RECURSIVE ListsUpTo(_, _)
ListsUpTo(S, n) ==
    IF n = 0 THEN {<<>>}
    ELSE LET shorter == ListsUpTo(S, n - 1)
         IN  shorter \cup {Append(l, x) : l \in {k \in shorter : Len(k) = n - 1}, x \in S}

(* The provider's cast list and the maxCast of the call to come. *)
InitCast ==
    /\ nodes = {} /\ rels = {} /\ lastIngestedPage = 0
    /\ \E apiCast \in ListsUpTo(castResult, MaxCastLen), maxCast \in 0..MaxCap :
          last = [NoCall EXCEPT !.op = "input", !.members = apiCast, !.m = maxCast]
    /\ named = [id \in ActorIds |-> ""]
    /\ calls = 0
    /\ RunAtRest

(* GetMovieCast(ctx, movieID, maxCast) with a response that decodes. *)
CallGetMovieCast ==
    /\ last.op = "input"
    /\ last' = [last EXCEPT !.op = "GetMovieCast",
                            !.result = CastActors(last.members, last.m)]
    /\ UNCHANGED <<nodes, rels, lastIngestedPage, named, calls, runVars>>

NextCast == CallGetMovieCast

SpecCast == InitCast /\ [][NextCast]_vars

---------------------------------------------------------------------------
(* SpecLimiter: the Limiter of a client made by NewClient from the default *)
(* configuration, and the requests that pass its Wait.  Time is counted in *)
(* token intervals, the time the limiter takes to add one token: with the  *)
(* default of 4 tokens per second, 250 ms.  At some moment a window of     *)
(* WindowSeconds opens; limiter.started counts the requests that pass      *)
(* Wait from then until the window has elapsed.                            *)

DefaultLimit == 4      \* TMDB_RATE_LIMIT
DefaultBurst == 5      \* TMDB_BURST_AMOUNT
WindowSeconds == 10    \* the provider's quota is counted over 10 seconds
Quota == 40            \* the provider's quota: 40 requests

(* The window in token intervals. *)
WindowTicks == WindowSeconds * DefaultLimit

(* rate.NewLimiter(rate.Every(time.Second/4), 5): the bucket starts full. *)
InitLimiter ==
    /\ nodes = {} /\ rels = {} /\ lastIngestedPage = 0
    /\ last = NoCall
    /\ named = [id \in ActorIds |-> ""]
    /\ calls = 0
    /\ http = NoFetch
    /\ limiter = [NoLimiter EXCEPT !.tokens = DefaultBurst]
    /\ trail = NoTrail
    /\ pc = "limiter" /\ fresh = FALSE /\ faults = 0 /\ cancelled = FALSE /\ late = FALSE
    /\ pagesFlag = 0 /\ allFlag = FALSE /\ down = FALSE /\ maxCastFlag = 0 /\ resumeFlag = FALSE
    /\ firstPage = 0 /\ lastPage = 0 /\ page = 0
    /\ movies = <<>> /\ idx = 0 /\ cast = <<>>
    /\ setCalled = 0 /\ ingestErr = FALSE /\ cutPage = 0
    /\ fetchFailed = 0 /\ prevFetchFailed = 0 /\ errs = FALSE /\ prevCut = -1 /\ prevCutPage = 0

notLimiter == <<nodes, rels, lastIngestedPage, last, named, calls, http, trail,
                pc, fresh, faults, cancelled, late, pagesFlag, allFlag, down, maxCastFlag, resumeFlag,
                firstPage, lastPage, page, movies, idx, cast, setCalled, ingestErr,
                cutPage, fetchFailed, prevFetchFailed, errs, prevCut, prevCutPage>>

InWindow == limiter.open /\ limiter.elapsed < WindowTicks

(* A token interval passes: the bucket gains a token, up to the burst. *)
LimiterTick ==
    /\ ~limiter.open \/ InWindow
    /\ limiter' = [limiter EXCEPT
          !.tokens = IF limiter.tokens < DefaultBurst THEN limiter.tokens + 1 ELSE DefaultBurst,
          !.elapsed = IF limiter.open THEN limiter.elapsed + 1 ELSE 0]
    /\ UNCHANGED notLimiter

(* Limiter.Wait returns nil for a request (getHTTP, part_005 125): it has  *)
(* taken a token.                                                          *)
LimiterWaitReturns ==
    /\ ~limiter.open \/ InWindow
    /\ limiter.tokens >= 1
    /\ limiter' = [limiter EXCEPT
          !.tokens = limiter.tokens - 1,
          !.started = IF limiter.open THEN limiter.started + 1 ELSE 0]
    /\ UNCHANGED notLimiter

(* The window of WindowSeconds begins. *)
WindowOpens ==
    /\ ~limiter.open
    /\ limiter' = [limiter EXCEPT !.open = TRUE]
    /\ UNCHANGED notLimiter

NextLimiter ==
    \/ LimiterTick
    \/ LimiterWaitReturns
    \/ WindowOpens

SpecLimiter == InitLimiter /\ [][NextLimiter]_vars

---------------------------------------------------------------------------
(* SearchActors: graph.go 159-191, on the fulltext index actor_name that   *)
(* SetupSchema creates (graph.go 53).  A name, a search text and a query   *)
(* are sequences of characters.                                            *)

Letters == {"L", "l", "e", "d"}
Chars == Letters \cup {" "}

(* The index and the query parser fold case. *)
Lower(c) == IF c = "L" THEN "l" ELSE c
LowerAll(w) == [i \in 1..Len(w) |-> Lower(w[i])]

(* The words of a text: what stands between its blanks. *)
RECURSIVE Words(_)
Words(s) ==
    IF s = <<>> THEN <<>>
    ELSE LET blanks == {i \in 1..Len(s) : s[i] = " "}
         IN  IF blanks = {} THEN <<s>>
             ELSE LET i == CHOOSE b \in blanks : \A c \in blanks : b <= c
                      rest == Words(SubSeq(s, i + 1, Len(s)))
                  IN  IF i = 1 THEN rest ELSE <<SubSeq(s, 1, i - 1)>> \o rest

(* The tokens the index keeps for a name. *)
Tokens(name) == {LowerAll(Words(name)[i]) : i \in 1..Len(Words(name))}

StartsWith(token, text) ==
    /\ Len(text) <= Len(token)
    /\ SubSeq(token, 1, Len(text)) = text

(* A clause of the query: a word that ends with * asks for a token that    *)
(* starts with the rest of the word, any other word for a token equal to it. *)
MatchesClause(name, w) ==
    IF w[Len(w)] = "*"
    THEN \E t \in Tokens(name) : StartsWith(t, LowerAll(SubSeq(w, 1, Len(w) - 1)))
    ELSE LowerAll(w) \in Tokens(name)

(* The query parser reads the query as its clauses, any of which may match. *)
Matches(name, query) ==
    \E i \in 1..Len(Words(query)) : MatchesClause(name, Words(query)[i])

(* The sequences of k distinct members of S. *)
Arrangements(S, k) ==
    {l \in ListsUpTo(S, k) : Len(l) = k /\ \A i, j \in 1..k : i # j => l[i] # l[j]}

(* The answers SearchActors(ctx, prefix, limit) can give when session.Run  *)
(* returns no error: the query is prefix + "*" (graph.go 166), the nodes   *)
(* that match are ordered by the index's score, which the source does not  *)
(* decide, and the first limit of them are returned.                       *)
SearchActors(G, prefix, limit) ==
    LET query == prefix \o <<"*">>
        hits == {n \in G.nodes : Matches(n.name, query)}
        k == IF limit < Cardinality(hits) THEN limit ELSE Cardinality(hits)
    IN  {Answer([i \in 1..k |-> Actor(l[i].tmdb_id, l[i].name)]) : l \in Arrangements(hits, k)}

---------------------------------------------------------------------------
(* SpecSearch: a store of named actors and one SearchActors on it.         *)

MaxText == 3
MaxLimit == 3

(* The names given to the actors. *)
SearchNames == {<<"L", "e">>, <<"l", "e", " ", "d">>, <<"d", "e">>, <<"e", "l">>}

(* The search texts: up to MaxText characters, no blank at either end. *)
SearchTexts ==
    {t \in ListsUpTo(Chars, MaxText) : t # <<>> /\ t[1] # " " /\ t[Len(t)] # " "}

(* The store after the upsert of the actors, and the text and the limit of *)
(* the call to come.                                                       *)
InitSearch ==
    /\ \E name \in [ActorIds -> SearchNames] :
          /\ nodes = UpsertNamed(EmptyGraph, ActorIds, name).nodes
          /\ named = name
    /\ \E text \in SearchTexts, limit \in 0..MaxLimit :
          last = [NoCall EXCEPT !.op = "input", !.members = text, !.m = limit]
    /\ rels = {}
    /\ lastIngestedPage = 0
    /\ calls = 0
    /\ RunAtRest

(* SearchActors is called; session.Run returns an error (graph.go 172-175) *)
(* or the query is run.                                                    *)
CallSearchActors ==
    /\ last.op = "input"
    /\ \E ran \in BOOLEAN :
          \E out \in (IF ran THEN SearchActors(Store, last.members, last.m) ELSE {Failure}) :
             last' = [last EXCEPT !.op = "SearchActors", !.ran = ran, !.ok = ~out.err,
                                  !.result = out.value]
    /\ UNCHANGED <<nodes, rels, lastIngestedPage, named, calls, runVars>>

NextSearch == CallSearchActors

SpecSearch == InitSearch /\ [][NextSearch]_vars

---------------------------------------------------------------------------
(* The ingest command: cmd/ingest/main.go                                  *)

(* The command before its first run, on the empty store. *)
InitRun ==
    /\ nodes = {} /\ rels = {} /\ lastIngestedPage = 0
    /\ last = NoCall
    /\ named = [id \in ActorIds |-> ""]
    /\ calls = 0
    /\ http = NoFetch
    /\ limiter = NoLimiter
    /\ trail = NoTrail
    /\ pc = "start" /\ fresh = FALSE /\ faults = 0 /\ cancelled = FALSE /\ late = FALSE
    /\ \/ allFlag = FALSE /\ pagesFlag \in {2, TotalPages, TotalPages + 1}
       \/ allFlag = TRUE /\ pagesFlag = 100
    /\ maxCastFlag \in {2, 3}
    /\ resumeFlag = FALSE
    /\ firstPage = 1 /\ lastPage = 0 /\ page = 0
    /\ movies = <<>> /\ idx = 0 /\ cast = <<>>
    /\ setCalled = 0 /\ ingestErr = FALSE /\ cutPage = 0
    /\ fetchFailed = 0 /\ prevFetchFailed = 0 /\ errs = FALSE /\ prevCut = -1 /\ prevCutPage = 0

Init == InitRun /\ down = FALSE

(* A call that takes ctx fails on a cancelled ctx, unless the signal came  *)
(* when the call's result was already decided.                             *)
MustFail == cancelled /\ ~late

(* A call may fail for a reason of its own. *)
MayFault == faults < MaxFaults

(* One more step of the run, counted once the signal has come. *)
Stepped(t) == [t EXCEPT !.stepsAfter = IF cancelled THEN @ + 1 ELSE @]

flags == <<pagesFlag, allFlag, down, maxCastFlag>>
ghosts == <<last, named, calls, http, limiter>>

(* main.go 47 with the page after the next one. *)
ResumePageSkips(w) == w + 2

(* main.go 47: firstPage = lastPage + 1 *)
ResumePage(w) == w + 1

(* main.go 41-49 with -resume left without effect. *)
FirstPageAlwaysOne(resume, w) == 1

(* main.go 41-49 with the watermark read whether -resume is given or not. *)
FirstPageAlwaysResumes(resume, w) == ResumePage(w)

(* main.go 41-49: firstPage *)
FirstPage(resume, w) == IF resume THEN ResumePage(w) ELSE 1

(* main.go 41-58: the first and the last page of the run. *)
StartRun ==
    /\ pc = "start"
    /\ \E resume \in BOOLEAN, ok \in BOOLEAN :
          LET first == FirstPage(resume, GetLastIngestedPage(lastIngestedPage))
              lastP == IF allFlag THEN MaxInt ELSE pagesFlag
          IN  /\ resumeFlag' = resume
              /\ first <= MaxPage
              /\ ~resume => ok
              /\ ok => ~(resume /\ MustFail)
              /\ ~ok => (cancelled \/ MayFault)
              /\ IF ~ok
                 THEN \* log.Fatalln: reading the watermark failed
                      /\ pc' = "done"
                      /\ errs' = TRUE
                      /\ faults' = IF cancelled THEN faults ELSE faults + 1
                      /\ fresh' = FALSE
                      /\ UNCHANGED <<firstPage, lastPage, page>>
                 ELSE /\ firstPage' = first
                      /\ lastPage' = lastP
                      /\ page' = first
                      /\ pc' = IF first > lastP THEN "done" ELSE "loop"
                      /\ fresh' = (first = 1 /\ Store = EmptyGraph /\ lastIngestedPage = 0)
                      /\ UNCHANGED <<errs, faults>>
    /\ late' = FALSE
    /\ trail' = [Stepped(trail) EXCEPT !.reads = IF resumeFlag' THEN @ + 1 ELSE @]
    /\ UNCHANGED <<nodes, rels, lastIngestedPage, ghosts, cancelled, flags,
                   movies, idx, cast, setCalled, ingestErr, cutPage, fetchFailed,
                   prevFetchFailed, prevCut, prevCutPage>>

(* main.go 61-64 with the check of ctx left out. *)
LoopIgnoresCtx == FALSE

(* main.go 61: ctx.Err() != nil *)
LoopSeesCtx == cancelled

(* main.go 60-64: the loop condition and the check of ctx before a page. *)
LoopCheck ==
    /\ pc = "loop"
    /\ pc' = IF page > lastPage \/ LoopSeesCtx THEN "done" ELSE "fetch"
    /\ trail' = [Stepped(trail) EXCEPT !.begunAfter = @ \/ (pc' = "fetch" /\ cancelled)]
    /\ UNCHANGED <<nodes, rels, lastIngestedPage, ghosts, fresh, faults, cancelled, late,
                   flags, resumeFlag, firstPage, lastPage, page, movies, idx, cast,
                   setCalled, ingestErr, cutPage, fetchFailed, prevFetchFailed, errs,
                   prevCut, prevCutPage>>

(* main.go 71-73 left out: lastPage stays as configured. *)
ShrunkNever(totalPages, lastP) == lastP

(* main.go 71-73: if totalPages < lastPage { lastPage = totalPages } *)
Shrunk(totalPages, lastP) == IF totalPages < lastP THEN totalPages ELSE lastP

(* main.go 66-75: GetPopularMovies and the shrinking of lastPage.          *)
(* The fetch returns an error (the page is skipped), or the provider's     *)
(* page, or the zero values decoded from the body of an error status       *)
(* other than 429, which getHTTP hands on as a response.  While the        *)
(* provider cannot be reached every fetch returns an error.                *)
FetchPage ==
    /\ pc = "fetch"
    /\ trail.fetches < MaxFetches
    /\ \E outcome \in {"ok", "error", "status"} :
          /\ outcome = "ok" => (~MustFail /\ ~down)
          /\ outcome = "status" => (~MustFail /\ ~down /\ MayFault)
          /\ outcome = "error" => (cancelled \/ down \/ MayFault)
          /\ trail' = [Stepped(trail) EXCEPT
                         !.sentAfter = @ \/ (outcome # "error" /\ cancelled /\ ~late),
                         !.fetchedPage = page,
                         !.fetches = @ + 1,
                         !.decided = (outcome = "error"),
                         !.total = IF outcome = "ok" THEN TotalPages
                                   ELSE IF outcome = "status" THEN 0 ELSE @]
          /\ IF outcome = "error"
             THEN \* log, continue
                  /\ pc' = "next"
                  /\ errs' = (errs \/ ~cancelled)
                  /\ faults' = IF cancelled \/ down THEN faults ELSE faults + 1
                  /\ fetchFailed' = IF ~cancelled /\ fetchFailed = 0 THEN page
                                    ELSE fetchFailed
                  /\ UNCHANGED <<lastPage, movies, idx>>
             ELSE LET totalPages == IF outcome = "ok" THEN TotalPages ELSE 0
                      got == IF outcome = "ok" THEN PageMovies(page) ELSE <<>>
                  IN  /\ lastPage' = Shrunk(totalPages, lastPage)
                      /\ movies' = got
                      /\ idx' = 1
                      /\ pc' = IF got = <<>> THEN "commit" ELSE "cast"
                      /\ errs' = (errs \/ outcome = "status")
                      /\ faults' = IF outcome = "status" THEN faults + 1 ELSE faults
                      /\ UNCHANGED fetchFailed
    /\ late' = FALSE
    /\ UNCHANGED <<nodes, rels, lastIngestedPage, ghosts, fresh, cancelled, flags,
                   resumeFlag, firstPage, page, cast, setCalled, ingestErr, cutPage,
                   prevFetchFailed, prevCut, prevCutPage>>

(* Where the movie loop goes after movie idx. *)
AfterMovie == IF idx + 1 > Len(movies) THEN "commit" ELSE "cast"

(* main.go 85-86, 95-96 with the movie loop left at the failure. *)
OnItemErrorBreak == "commit"

(* main.go 85-86, 95-96: the failure is logged and the loop goes on. *)
OnItemError == AfterMovie

(* main.go 77-87: GetMovieCast for movies[idx]. *)
FetchCast ==
    /\ pc = "cast"
    /\ \E outcome \in {"ok", "error", "status"} :
          /\ outcome = "ok" => ~MustFail
          /\ outcome = "status" => (~MustFail /\ MayFault)
          /\ outcome = "error" => (cancelled \/ MayFault)
          /\ trail' = [Stepped(trail) EXCEPT
                         !.tried = @ \cup {idx},
                         !.failed = IF outcome = "error" /\ ~cancelled THEN @ \cup {idx} ELSE @,
                         !.bare = IF outcome = "status" THEN @ \cup {idx} ELSE @,
                         !.castAfterDown = @ \/ trail.firstDown,
                         !.ctxDoneAt91 = (outcome # "error" /\ cancelled),
                         !.sentAfter = @ \/ (outcome # "error" /\ cancelled /\ ~late)]
          /\ IF outcome = "error"
             THEN /\ cast' = <<>>
                  /\ IF cancelled
                     THEN \* break
                          pc' = "commit" /\ UNCHANGED <<idx, errs, faults>>
                     ELSE \* log, continue
                          /\ pc' = OnItemError
                          /\ idx' = idx + 1
                          /\ errs' = TRUE
                          /\ faults' = faults + 1
             ELSE /\ cast' = IF outcome = "ok"
                             THEN GetMovieCast(ProviderCast(movies[idx].TmdbID), maxCastFlag)
                             ELSE GetMovieCast(<<>>, maxCastFlag)
                  /\ pc' = "ingest"
                  /\ errs' = (errs \/ outcome = "status")
                  /\ faults' = IF outcome = "status" THEN faults + 1 ELSE faults
                  /\ UNCHANGED idx
    /\ late' = FALSE
    /\ UNCHANGED <<nodes, rels, lastIngestedPage, ghosts, fresh, cancelled, flags,
                   resumeFlag, firstPage, lastPage, page, movies, setCalled, ingestErr,
                   cutPage, fetchFailed, prevFetchFailed, prevCut, prevCutPage>>

(* main.go 89-96: IngestMovieCast for movies[idx]; when it returns an      *)
(* error it has made its first n store calls only.                         *)
Ingest ==
    /\ pc = "ingest"
    /\ LET movie == movies[idx]
           total == Len(IngestOps(movie, cast))
       IN  \E n \in 0..total, ok \in BOOLEAN :
              /\ ok => (n = total /\ ~MustFail)
              /\ ~ok => ((n < total \/ n = 0) /\ (cancelled \/ MayFault))
              /\ trail' = [Stepped(trail) EXCEPT
                             !.done = IF ok THEN @ \cup {idx} ELSE @,
                             !.failed = IF ~ok /\ ~cancelled THEN @ \cup {idx} ELSE @,
                             !.firstDown = @ \/ (~ok /\ ~cancelled /\ n = 0
                                                  /\ trail.done = {} /\ trail.failed = {}),
                             !.ingestAfter = @ \/ trail.ctxDoneAt91,
                             !.ingestOther = @ \/ (cancelled /\ (trail.cutIdx # idx
                                                                  \/ cutPage # page)),
                             !.ctxDoneAt91 = FALSE,
                             !.wrote = @ \/ n > 0]
              /\ LET G == IngestPrefix(Store, movie, cast, n)
                 IN  nodes' = G.nodes /\ rels' = G.rels
              /\ IF ok
                 THEN /\ pc' = AfterMovie
                      /\ idx' = idx + 1
                      /\ UNCHANGED <<ingestErr, errs, faults>>
                 ELSE IF cancelled
                      THEN \* break
                           pc' = "commit" /\ UNCHANGED <<idx, ingestErr, errs, faults>>
                      ELSE \* log, next movie
                           /\ pc' = OnItemError
                           /\ idx' = idx + 1
                           /\ ingestErr' = TRUE
                           /\ errs' = TRUE
                           /\ faults' = faults + 1
    /\ cast' = <<>>
    /\ late' = FALSE
    /\ UNCHANGED <<lastIngestedPage, ghosts, fresh, cancelled, flags, resumeFlag,
                   firstPage, lastPage, page, movies, setCalled, cutPage, fetchFailed,
                   prevFetchFailed, prevCut, prevCutPage>>

(* SetLastIngestedPage(ctx, page) is called; its error is logged. *)
SaveIngestState ==
    \E ok \in BOOLEAN :
       /\ ~ok => MayFault
       /\ setCalled' = page
       /\ lastIngestedPage' = IF ok THEN SetLastIngestedPage(lastIngestedPage, page)
                              ELSE lastIngestedPage
       /\ errs' = (errs \/ ~ok)
       /\ faults' = IF ok THEN faults ELSE faults + 1

(* main.go 99 with the check of ctx left out. *)
MayCommitAlways == TRUE

(* main.go 99: ctx.Err() == nil *)
MayCommit == ~cancelled

(* main.go 99-103: the watermark is written when ctx is not cancelled. *)
Commit ==
    /\ pc = "commit"
    /\ IF MayCommit
       THEN SaveIngestState
       ELSE UNCHANGED <<setCalled, lastIngestedPage, errs, faults>>
    /\ pc' = "next"
    /\ trail' = [Stepped(trail) EXCEPT !.decided = TRUE,
                                       !.wrote = @ \/ MayCommit]
    /\ UNCHANGED <<nodes, rels, ghosts, fresh, cancelled, late, flags, resumeFlag,
                   firstPage, lastPage, page, movies, idx, cast, ingestErr, cutPage,
                   fetchFailed, prevFetchFailed, prevCut, prevCutPage>>

(* main.go 60 with the page left as it is. *)
PageAfterSame(p) == p

(* main.go 60: page++ *)
PageAfter(p) == p + 1

(* main.go 60: the loop's post statement. *)
NextPage ==
    /\ pc = "next"
    /\ page' = PageAfter(page)
    /\ pc' = "loop"
    /\ movies' = <<>> /\ idx' = 0
    /\ ingestErr' = FALSE
    /\ trail' = [Stepped(trail) EXCEPT !.tried = {}, !.done = {}, !.failed = {}, !.bare = {},
                                       !.firstDown = FALSE, !.castAfterDown = FALSE,
                                       !.ctxDoneAt91 = FALSE]
    /\ UNCHANGED <<nodes, rels, lastIngestedPage, ghosts, fresh, faults, cancelled, late,
                   flags, resumeFlag, firstPage, lastPage, cast, setCalled, cutPage, fetchFailed,
                   prevFetchFailed, errs, prevCut, prevCutPage>>

(* main.go 30: SIGINT or SIGTERM cancels ctx, at any moment of the run.    *)
Signal ==
    /\ pc # "done"
    /\ ~cancelled
    /\ cancelled' = TRUE
    /\ late' \in (IF pc \in {"start", "fetch", "cast", "ingest"}
                  THEN BOOLEAN ELSE {FALSE})
    /\ cutPage' = IF pc \in {"fetch", "cast", "ingest"} THEN page ELSE 0
    /\ trail' = [trail EXCEPT !.cutIdx = IF pc \in {"cast", "ingest"} THEN idx ELSE 0]
    /\ UNCHANGED <<nodes, rels, lastIngestedPage, ghosts, pc, fresh, faults, flags,
                   resumeFlag, firstPage, lastPage, page, movies, idx, cast, setCalled,
                   ingestErr, fetchFailed, prevFetchFailed, errs, prevCut, prevCutPage>>

(* The command is run again, with the store as the run before left it. *)
Restart ==
    /\ pc = "done"
    /\ pc' = "start"
    /\ cancelled' = FALSE /\ late' = FALSE
    /\ prevFetchFailed' = fetchFailed
    /\ prevCut' = IF fresh /\ ~errs /\ cancelled THEN lastIngestedPage ELSE -1
    /\ fresh' = FALSE
    /\ resumeFlag' = FALSE
    /\ firstPage' = 1 /\ lastPage' = 0 /\ page' = 0
    /\ movies' = <<>> /\ idx' = 0 /\ cast' = <<>>
    /\ setCalled' = 0 /\ ingestErr' = FALSE /\ cutPage' = 0
    /\ prevCutPage' = cutPage
    /\ trail' = NoTrail
    /\ fetchFailed' = 0 /\ errs' = FALSE
    /\ UNCHANGED <<nodes, rels, lastIngestedPage, ghosts, faults, flags>>

Next ==
    \/ StartRun
    \/ LoopCheck
    \/ FetchPage
    \/ FetchCast
    \/ Ingest
    \/ Commit
    \/ NextPage
    \/ Signal
    \/ Restart

Spec == Init /\ [][Next]_vars

(* The command run while the provider cannot be reached: no catalog fetch  *)
(* returns a page, so no run gets to its movie loop.                       *)
InitDown == InitRun /\ down = TRUE

NextDown ==
    \/ StartRun
    \/ LoopCheck
    \/ FetchPage
    \/ NextPage
    \/ Signal
    \/ Restart

SpecDown == InitDown /\ [][NextDown]_vars

---------------------------------------------------------------------------
(* What one uninterrupted run without any failure writes into the empty    *)
(* store: the movies of pages 1..end in order, each with its capped cast.  *)

RECURSIVE IngestMovies(_, _, _, _)
IngestMovies(G, ms, n, maxCast) ==
    IF n = 0 THEN G
    ELSE IngestMovieCast(IngestMovies(G, ms, n - 1, maxCast), ms[n],
                         GetMovieCast(ProviderCast(ms[n].TmdbID), maxCast))

RECURSIVE IngestPages(_, _, _)
IngestPages(G, end, maxCast) ==
    IF end = 0 THEN G
    ELSE LET before == IngestPages(G, end - 1, maxCast)
         IN  IngestMovies(before, PageMovies(end), Len(PageMovies(end)), maxCast)

Uninterrupted ==
    LET want == IF allFlag THEN MaxInt ELSE pagesFlag
        end == IF TotalPages < want THEN TotalPages ELSE want
    IN  IngestPages(EmptyGraph, end, maxCastFlag)

(* No tmdb_id has two nodes and no (from, to, movie) has two relationships. *)
NoDuplicates(G) ==
    /\ Cardinality({n.tmdb_id : n \in G.nodes}) = Cardinality(G.nodes)
    /\ Cardinality({<<r.src, r.dst, r.tmdb_movie_id>> : r \in G.rels})
          = Cardinality(G.rels)

---------------------------------------------------------------------------
(* Properties of the ingest command (Spec).                                *)

(* C1: when IngestMovieCast returned an error other than a cancellation    *)
(* for a movie of page p, the run does not call SetLastIngestedPage(p).    *)
C1_IngestErrorKeepsWatermark ==
    (pc = "next" /\ ingestErr) => setCalled # page

(* C2: a page the run had started, and whose movies were not all           *)
(* processed when the signal came, is never given to SetLastIngestedPage.  *)
C2_CutPageNotWatermarked ==
    cutPage # 0 => setCalled # cutPage

(* The signal came in page 4 after its first movie; the page is left       *)
(* without a watermark.                                                    *)
C2_Witness ==
    /\ pc = "next"
    /\ cutPage = page
    /\ Len(movies) = 2 /\ idx = 2
    /\ setCalled = page - 1
    /\ lastIngestedPage = page - 1

(* C3: a page whose catalog fetch failed in a run is fetched again by the  *)
(* next run with -resume: that run starts at or before the page.           *)
C3_FailedPageRefetched ==
    (pc \notin {"start", "done"} /\ resumeFlag /\ prevFetchFailed # 0)
    => firstPage <= prevFetchFailed

(* C4: a run from page 1 on the empty store, without failure, interrupted  *)
(* with the watermark at page c (c = 3: page 4 not committed), followed by *)
(* a run with -resume that ends without failure or interruption: the       *)
(* second run starts at page c + 1 and the store then holds the same Actor *)
(* nodes and COSTARRED relationships as one uninterrupted run over the     *)
(* same pages, with no duplicate node or relationship.                     *)
C4_ResumeEqualsUninterrupted ==
    (pc = "done" /\ prevCut >= 0 /\ resumeFlag /\ ~errs /\ ~cancelled)
    => /\ firstPage = prevCut + 1
       /\ GraphView(Store) = GraphView(Uninterrupted)
       /\ NoDuplicates(Store)

(* The first run was cut in page 4 with the watermark at 3; the resumed    *)
(* run started at page 4 and has ended.                                    *)
C4_Witness ==
    /\ pc = "done"
    /\ prevCut = 3 /\ prevCutPage = 4
    /\ resumeFlag /\ ~errs /\ ~cancelled
    /\ firstPage = 4
    /\ lastIngestedPage >= 4
    /\ Cardinality(rels) >= 3

---------------------------------------------------------------------------
(* Properties of the store (SpecStore).                                    *)

Choose2(k) == (k * (k - 1)) \div 2

(* The tmdb ids of the cast the run gets for a movie. *)
CastIds(movie) ==
    LET members == GetMovieCast(ProviderCast(movie.TmdbID), maxCastFlag)
    IN  [i \in 1..Len(members) |-> members[i].TmdbID]

(* C17: when the movie loop of a page ends without cancellation,           *)
(* GetMovieCast was called for every movie of the page, and every movie    *)
(* but those that met a failure was ingested: its actors and its edges are *)
(* in the store.  A failure skips its own movie only.                      *)
C17_FailureSkipsOneMovie ==
    (pc = "commit" /\ ~cancelled)
    => /\ trail.tried = 1..Len(movies)
       /\ trail.done = trail.tried \ trail.failed
       /\ \A i \in trail.done \ trail.bare :
             Ingested(Store, movies[i].TmdbID, CastIds(movies[i]))

(* Page 4: the first movie failed, the second one was fetched and ingested. *)
C17_Witness ==
    /\ pc = "commit" /\ ~cancelled
    /\ page = 4 /\ Len(movies) = 2
    /\ trail.tried = {1, 2}
    /\ trail.failed = {1}
    /\ trail.done = {2}
    /\ Ingested(Store, movies[2].TmdbID, CastIds(movies[2]))

(* C18 as stated: once the signal is raised, IngestMovieCast is not called. *)
C18_NoIngestAfterSignal == ~trail.ingestAfter

(* C18, amended: once the signal is raised the run begins no further page, *)
(* no fetch begun after it is answered, IngestMovieCast is called for no   *)
(* movie other than the one in process when the signal came, and the run   *)
(* ends within five further steps.                                         *)
C18_SignalStopsNewWork ==
    /\ ~trail.begunAfter
    /\ ~trail.sentAfter
    /\ ~trail.ingestOther
    /\ trail.stepsAfter <= 5

(* The signal came in page 4 while the cast of its first movie was fetched; *)
(* the second movie was not processed and the run has ended.               *)
C18_Witness ==
    /\ pc = "done" /\ cancelled
    /\ cutPage = 4 /\ trail.cutIdx = 1
    /\ page = 5 /\ lastIngestedPage = 3
    /\ ~trail.ingestAfter
    /\ trail.stepsAfter >= 3

(* C19: when the first IngestMovieCast of a page fails because the store   *)
(* is unavailable, nothing written for the page yet, no further cast is    *)
(* fetched for the page and SetLastIngestedPage is not called for it.      *)
C19_StoreDownAbortsPage ==
    trail.firstDown => (~trail.castAfterDown /\ setCalled # page)

(* C20: when the signal comes while a movie is in process, that movie is   *)
(* ingested before the run leaves the movie loop.                          *)
C20_SignalFinishesMovie ==
    (pc = "commit" /\ trail.cutIdx # 0 /\ cutPage = page)
    => trail.cutIdx \in trail.done

(* C5: after any sequence of UpsertActor calls there is exactly one Actor  *)
(* node for every tmdb_id ever upserted, none for any other id, and the    *)
(* node's name is the name given by the latest upsert of that id.          *)
C5_OneActorPerIdLatestName ==
    \A id \in ActorIds :
        IF named[id] = ""
        THEN MatchActor(nodes, id) = {}
        ELSE /\ Cardinality(MatchActor(nodes, id)) = 1
             /\ \A n \in MatchActor(nodes, id) : n.name = named[id]

(* An actor that had the name "A" was upserted again as "B". *)
C5_Witness ==
    /\ last.op = "UpsertActor"
    /\ last.preNames = {"A"}
    /\ last.name = "B"
    /\ Cardinality(nodes) = last.preNodes

(* C6: after CreateCostarEdge(a, b, movie) between two existing actors,    *)
(* also when it was called before with the same triple in the same order,  *)
(* exactly one COSTARRED relationship leads from a to b for that movie,    *)
(* and it carries the title and year of this latest call.                  *)
C6_SameTripleOneEdgeLatestProps ==
    (/\ last.op = "CreateCostarEdge"
     /\ MatchActor(nodes, last.a) # {}
     /\ MatchActor(nodes, last.b) # {})
    => /\ Cardinality(RelsFromTo(Store, last.a, last.b, last.m)) = 1
       /\ \A r \in RelsFromTo(Store, last.a, last.b, last.m) :
             r.movie_title = last.title /\ r.year = last.year
       /\ last.preTriple = 1 => Cardinality(rels) = last.preRels

(* The second call for a triple, with another title than the first. *)
C6_Witness ==
    /\ last.op = "CreateCostarEdge"
    /\ last.preTriple = 1
    /\ last.preTitles = {"T"}
    /\ last.title = "U"
    /\ last.a # last.b

(* C7: for every unordered pair of actors and every movie id at most one   *)
(* COSTARRED relationship exists, whatever the order of the two ids in the *)
(* calls that made it.                                                     *)
C7_OneEdgePerUnorderedPair ==
    \A a \in ActorIds, b \in ActorIds, m \in MovieIds :
        Cardinality(RelsBetween(Store, a, b, m)) <= 1

(* C8: CreateCostarEdge for a movie id leaves every relationship of        *)
(* another movie id as it was, and the pair then has a relationship of     *)
(* this movie id beside them: one per movie id.                            *)
C8_OtherMoviesUntouched ==
    [][(last'.op = "CreateCostarEdge")
       => /\ \A r \in rels : r.tmdb_movie_id # last'.m => r \in rels'
          /\ \A r \in rels' : r.tmdb_movie_id # last'.m => r \in rels
          /\ (MatchActor(nodes, last'.a) # {} /\ MatchActor(nodes, last'.b) # {})
             => Cardinality(RelsFromTo(Store', last'.a, last'.b, last'.m)) = 1]_vars

(* Two relationships between the same two nodes, one per movie id, the     *)
(* second just created by CreateCostarEdge.                                *)
C8_Witness ==
    /\ last.op = "CreateCostarEdge"
    /\ last.preTriple = 0
    /\ \E r1 \in rels, r2 \in rels :
          /\ r1.src = r2.src /\ r1.dst = r2.dst
          /\ r1.tmdb_movie_id = last.m
          /\ r2.tmdb_movie_id # last.m

(* C9: IngestMovieCast of a movie with k distinct cast members into a      *)
(* store with no relationship leaves one Actor node per member (k nodes in *)
(* all when the store was empty) and exactly k*(k-1)/2 relationships: one  *)
(* for each unordered pair of members, with the movie's id, title, year.   *)
C9_IngestPairwise ==
    (last.op = "IngestMovieCast" /\ last.preRels = 0)
    => LET ids == last.members
           k == Len(ids)
       IN  /\ \A i \in 1..k : Cardinality(MatchActor(nodes, ids[i])) = 1
           /\ last.preNodes = 0 => Cardinality(nodes) = k
           /\ Cardinality(rels) = Choose2(k)
           /\ \A i, j \in 1..k : i < j =>
                 /\ Cardinality(RelsBetween(Store, ids[i], ids[j], last.m)) = 1
                 /\ \A r \in RelsBetween(Store, ids[i], ids[j], last.m) :
                       r.movie_title = last.title /\ r.year = last.year

(* A cast of three was ingested into the empty store: 3 nodes, 3 edges. *)
C9_Witness ==
    /\ last.op = "IngestMovieCast"
    /\ last.preNodes = 0 /\ last.preRels = 0
    /\ Len(last.members) = 3
    /\ Cardinality(nodes) = 3
    /\ Cardinality(rels) = 3

(* C10: IngestMovieCast of a movie and a cast the store already holds      *)
(* (the same call was made before) leaves the number of Actor nodes and    *)
(* the number of COSTARRED relationships unchanged.                        *)
C10_ReingestNoDuplicates ==
    (last.op = "IngestMovieCast" /\ last.preHas)
    => /\ Cardinality(nodes) = last.preNodes
       /\ Cardinality(rels) = last.preRels

(* The same cast of three was ingested a second time. *)
C10_Witness ==
    /\ last.op = "IngestMovieCast"
    /\ last.preHas
    /\ Len(last.members) = 3
    /\ calls = 2
    /\ Cardinality(rels) = 3

---------------------------------------------------------------------------
(* Properties of the read queries (SpecQuery).                             *)

(* The relationships between actors a and b, of any movie, in either direction. *)
Joining(G, a, b) ==
    UNION {RelsBetween(G, a, b, r.tmdb_movie_id) : r \in G.rels}

(* The tmdb ids within k relationships of actor a, followed in either direction. *)
RECURSIVE Within(_, _, _)
Within(G, a, k) ==
    IF k = 0 THEN {n.tmdb_id : n \in MatchActor(G.nodes, a)}
    ELSE LET near == Within(G, a, k - 1)
         IN  near \cup {y \in ActorIds : \E x \in near : Joining(G, x, y) # {}}

Connected(G, a, b) == b \in Within(G, a, Cardinality(G.nodes))

(* The least number of relationships joining a to b, when connected. *)
Degrees(G, a, b) ==
    CHOOSE k \in 0..Cardinality(G.nodes) :
       /\ b \in Within(G, a, k)
       /\ \A j \in 0..(k - 1) : b \notin Within(G, a, j)

(* C11: for connected actors a # b, ShortestPath(a, b) returns 2n+1 steps, *)
(* n the least number of relationships joining them in either direction:   *)
(* the odd steps are actors of the store with their names, the first is a  *)
(* and the last is b, and each even step carries the title and year of a   *)
(* relationship between the actors next to it.                             *)
C11_ShortestPathAlternates ==
    (last.op = "ShortestPath" /\ last.ran /\ last.a # last.b
       /\ Connected(Store, last.a, last.b))
    => LET s == last.result
           n == Degrees(Store, last.a, last.b)
       IN  /\ last.ok
           /\ Len(s) = 2 * n + 1
           /\ s[1].Actor.TmdbID = last.a
           /\ s[Len(s)].Actor.TmdbID = last.b
           /\ \A i \in 1..Len(s) :
                 IF i % 2 = 1
                 THEN /\ \E x \in nodes : s[i].Actor = [TmdbID |-> x.tmdb_id, Name |-> x.name]
                      /\ s[i].MovieTitle = "" /\ s[i].MovieYear = 0
                 ELSE /\ s[i].Actor = NoActor
                      /\ \E r \in Joining(Store, s[i - 1].Actor.TmdbID, s[i + 1].Actor.TmdbID) :
                            r.movie_title = s[i].MovieTitle /\ r.year = s[i].MovieYear

(* Actor 1 - movie 1 - actor 2 - movie 2 - actor 3, the second             *)
(* relationship stored from 3 to 2, and no relationship between 1 and 3.   *)
C11_Witness ==
    /\ last.op = "ShortestPath" /\ last.ok
    /\ last.a = 1 /\ last.b = 3
    /\ Joining(Store, 1, 3) = {}
    /\ RelsFromTo(Store, 2, 3, 2) = {} /\ RelsFromTo(Store, 3, 2, 2) # {}
    /\ Len(last.result) = 5
    /\ [i \in 1..5 |-> IF i % 2 = 1 THEN last.result[i].Actor.TmdbID
                       ELSE last.result[i].MovieTitle] = <<1, "T", 2, "U", 3>>

(* C12: ShortestPath(a, b) for two actors of the store that no chain of    *)
(* relationships joins returns no steps and no error, whenever the query   *)
(* itself could be run.                                                    *)
C12_NoPathIsEmptyNotError ==
    (last.op = "ShortestPath" /\ last.ran
       /\ MatchActor(nodes, last.a) # {} /\ MatchActor(nodes, last.b) # {}
       /\ ~Connected(Store, last.a, last.b))
    => (last.result = <<>> /\ last.ok)

(* Actors 1 and 2 are in the store, 2 has relationships, none reaches 1. *)
C12_Witness ==
    /\ last.op = "ShortestPath" /\ last.ok
    /\ last.a = 1 /\ last.b = 2
    /\ MatchActor(nodes, 1) # {} /\ MatchActor(nodes, 2) # {}
    /\ Joining(Store, 2, 3) # {}
    /\ ~Connected(Store, 1, 2)
    /\ last.result = <<>>

---------------------------------------------------------------------------
(* Properties of one fetch (SpecFetch).                                    *)

Returned == http.pc \in {"done", "returned"}

(* C13: with MaxRetries >= 1, a fetch that got a response handed on has    *)
(* met k < MaxRetries answers 429 and sent exactly k + 1 requests; a fetch *)
(* that ends with the error of exhausted retries has met MaxRetries        *)
(* answers 429 and sent exactly MaxRetries requests; no fetch ever sends   *)
(* more than MaxRetries requests.                                          *)
C13_ThrottleRetryCounts ==
    http.maxRetries >= 1
    => /\ http.requests <= http.maxRetries
       /\ (Returned /\ http.res = "resp")
          => (http.throttled < http.maxRetries /\ http.requests = http.throttled + 1)
       /\ (Returned /\ http.res = "exhausted")
          => (http.throttled = http.maxRetries /\ http.requests = http.maxRetries)
       /\ (Returned /\ http.throttled = http.maxRetries) => http.res \in {"exhausted", "ctx"}

(* Two answers 429, then a success: the fetch returns the value after      *)
(* three requests.                                                         *)
C13_Witness ==
    /\ http.pc = "returned" /\ http.ret = "value"
    /\ http.maxRetries = 3
    /\ http.throttled = 2 /\ http.requests = 3 /\ http.sleeps = 2

(* C14: a transport error is never followed by a backoff or by another     *)
(* request: the fetch returns the error at once.  A fetch that returns a   *)
(* transport error or a decoding error has sent one request and slept once *)
(* for each answer 429 before it and no more: with no 429, exactly one     *)
(* request and no sleep.                                                   *)
C14_OnlyThrottleRetried ==
    /\ http.netErrs > 0 => (Returned /\ http.res = "transport" /\ http.netErrs = 1)
    /\ (Returned /\ http.netErrs > 0)
       => (http.requests = http.throttled + 1 /\ http.sleeps = http.throttled)
    /\ (http.pc = "returned" /\ http.ret = "decode")
       => (http.requests = http.throttled + 1 /\ http.sleeps = http.throttled)

(* The first request met a transport error: the fetch returned an error    *)
(* after one request and no sleep.                                         *)
C14_Witness ==
    /\ http.pc = "returned" /\ http.ret = "error" /\ http.res = "transport"
    /\ http.netErrs = 1 /\ http.throttled = 0
    /\ http.requests = 1 /\ http.sleeps = 0
    /\ http.maxRetries = 3

(* C15: a fetch whose ctx was cancelled while it was blocked in the        *)
(* limiter's Wait or in a backoff sleep returns a cancellation error, with *)
(* no tick waited and no request sent after the cancellation; a fetch      *)
(* called with a cancelled ctx returns an error and sends no request.      *)
C15_CancelWakesBlockedFetch ==
    /\ http.cancelBlocked
       => /\ http.lateTicks = 0
          /\ http.requests = http.cancelRequests
          /\ http.pc \in {"wait", "backoff", "done", "returned"}
          /\ Returned => http.res \in {"limiter", "ctx"}
    /\ http.cancelAt = "call"
       => /\ http.requests = 0
          /\ Returned => http.res # "resp"

(* Cancelled in the second backoff sleep, two ticks long, before its first *)
(* tick; the fetch has returned ctx.Err().                                 *)
C15_Witness ==
    /\ http.pc = "returned" /\ http.ret = "error" /\ http.res = "ctx"
    /\ http.cancelAt = "backoff" /\ http.cancelBlocked
    /\ http.attempt = 1 /\ http.remaining = 2
    /\ http.requests = 2

---------------------------------------------------------------------------
(* Properties of GetMovieCast (SpecCast).                                  *)

(* C16: GetMovieCast with maxCast >= 0 on a cast list of n members returns *)
(* no error and min(maxCast, n) actors, the i-th of them the i-th member   *)
(* of the list with its id and name; all n when n < maxCast.               *)
C16_FirstMaxCastMembers ==
    last.op = "GetMovieCast"
    => LET n == Len(last.members)
           k == IF last.m < n THEN last.m ELSE n
       IN  /\ last.ok
           /\ Len(last.result) = k
           /\ n < last.m => Len(last.result) = n
           /\ \A i \in 1..k :
                 last.result[i] = [TmdbID |-> last.members[i].id,
                                   Name |-> last.members[i].name]

(* A list of three members cut to two, the order kept. *)
C16_Witness ==
    /\ last.op = "GetMovieCast"
    /\ [i \in 1..Len(last.members) |-> last.members[i].id] = <<3, 1, 2>>
    /\ last.m = 2
    /\ [i \in 1..Len(last.result) |-> last.result[i].TmdbID] = <<3, 1>>

---------------------------------------------------------------------------
(* Properties of the watermark record (SpecWatermark).                     *)

(* C21: a GetLastIngestedPage that returns no error returns the page of    *)
(* the latest SetLastIngestedPage that returned nil, whatever was set      *)
(* before it, and 0 when no watermark was ever stored.                     *)
C21_WatermarkLastWriteWins ==
    (last.op = "GetLastIngestedPage" /\ last.ok) => last.result = <<last.a>>

(* A smaller page was set after a larger one, and the smaller one is read. *)
C21_Witness ==
    /\ last.op = "GetLastIngestedPage" /\ last.ok
    /\ last.m > last.a
    /\ last.result = <<last.a>>

---------------------------------------------------------------------------
(* Properties of GetStats (SpecStats).                                     *)

(* The number of COSTARRED relationships at the actor node n, in either direction. *)
Degree(G, n) == Cardinality({r \in G.rels : r.src = n.nid \/ r.dst = n.nid})

(* C22: a GetStats that returns no error returns the number of Actor nodes *)
(* as ActorCount, the number of COSTARRED relationships as EdgeCount, as   *)
(* MostConnectedActor the name of an actor whose number of relationships,  *)
(* in either direction, is the largest of all actors, and that number as   *)
(* MostConnectedCount.                                                     *)
C22_StatsExactTotalsAndTop ==
    (last.op = "GetStats" /\ last.ran /\ last.ok /\ nodes # {})
    => LET stats == last.result[1]
       IN  /\ stats.ActorCount = Cardinality(nodes)
           /\ stats.EdgeCount = Cardinality(rels)
           /\ \E n \in nodes :
                 /\ n.name = stats.MostConnectedActor
                 /\ stats.MostConnectedCount = Degree(Store, n)
                 /\ \A o \in nodes : Degree(Store, o) <= Degree(Store, n)

(* C23: on a store without Actor nodes and without relationships a         *)
(* GetStats whose query could be run returns no error, ActorCount 0,       *)
(* EdgeCount 0, no MostConnectedActor and MostConnectedCount 0.            *)
C23_StatsOfEmptyGraph ==
    (last.op = "GetStats" /\ last.ran /\ nodes = {} /\ rels = {})
    => (last.ok /\ last.result = <<NoStats>>)

(* GetStats has answered on the empty store. *)
C23_Witness ==
    /\ last.op = "GetStats" /\ last.ran
    /\ nodes = {} /\ rels = {}
    /\ last.result = <<NoStats>>

---------------------------------------------------------------------------
(* Properties of SearchActors (SpecSearch).                                *)

(* The name has a token that starts with the text, case left aside. *)
HasTokenStarting(name, text) == \E t \in Tokens(name) : StartsWith(t, LowerAll(text))

(* C24: a SearchActors(text, limit) that returns no error returns at most  *)
(* limit actors, each with a name that has a token starting with text,     *)
(* case left aside, and exactly limit actors when more than limit actors   *)
(* have such a name.                                                       *)
C24_SearchReturnsPrefixMatches ==
    (last.op = "SearchActors" /\ last.ran /\ last.ok)
    => /\ Len(last.result) <= last.m
       /\ \A i \in 1..Len(last.result) : HasTokenStarting(last.result[i].Name, last.members)
       /\ Cardinality({n \in nodes : HasTokenStarting(n.name, last.members)}) > last.m
             => Len(last.result) = last.m

---------------------------------------------------------------------------
(* Properties of the client's limiter (SpecLimiter).                       *)

(* C25: with the default rate of 4 per second and burst of 5, no more than *)
(* 40 requests pass the limiter within a window of 10 seconds.             *)
C25_AtMostQuotaPerWindow == limiter.open => limiter.started <= Quota

---------------------------------------------------------------------------
(* Properties of the page loop of one run (Spec).                          *)

(* The step in which GetPopularMovies(ctx, page) is called and returns. *)
FetchStep == pc = "fetch" /\ pc' # "fetch"

(* The step in which SetLastIngestedPage(ctx, page) is called. *)
SaveStep == pc = "commit" /\ pc' = "next" /\ ~cancelled

(* C26: within a run every catalog fetch is of a page greater than the one *)
(* fetched before it, so that no page is fetched twice; the page before    *)
(* is over by then, its movie loop ended and main.go 99 passed; and every  *)
(* page given to SetLastIngestedPage is greater than the one given before. *)
C26_PagesInOrderOneAtATime ==
    [][/\ FetchStep => /\ page > trail.fetchedPage
                       /\ trail.fetchedPage # 0 => trail.decided
       /\ SaveStep => setCalled' > setCalled]_vars

(* Page 2 is being processed after page 1 was fetched and its watermark set. *)
C26_Witness ==
    /\ pc = "cast"
    /\ firstPage = 1
    /\ trail.fetchedPage = 2
    /\ setCalled = 1

(* C27: a catalog fetch that succeeds and reports fewer pages than         *)
(* lastPage makes lastPage that number; lastPage never grows while the run *)
(* is in its loop; and no page above lastPage is fetched.                  *)
C27_EndPageOnlyShrinks ==
    [][/\ (FetchStep /\ pc' # "next")
          => lastPage' = IF trail'.total < lastPage THEN trail'.total ELSE lastPage
       /\ pc \notin {"start", "done"} => lastPage' <= lastPage
       /\ FetchStep => page <= lastPage]_vars

(* The run was given one page more than the provider has, and the fetch of *)
(* a page has cut lastPage down to the provider's total.                   *)
C27_Witness ==
    /\ pc = "cast"
    /\ ~allFlag /\ pagesFlag = TotalPages + 1
    /\ trail.total = TotalPages
    /\ lastPage = TotalPages

(* -pages, or the largest int with -all: main.go 51-54. *)
ConfiguredLastPage == IF allFlag THEN MaxInt ELSE pagesFlag

(* C28: a run with -resume calls GetLastIngestedPage once, before its      *)
(* loop, and the first page it fetches is the watermark plus one; a run    *)
(* without -resume does not call it and fetches page 1 first; a run whose  *)
(* first page is greater than the configured last page fetches nothing and *)
(* makes no store call that writes.                                        *)
C28_FirstPageFromWatermark ==
    /\ [](pc # "start" => trail.reads = IF resumeFlag THEN 1 ELSE 0)
    /\ []((pc # "start" /\ firstPage > ConfiguredLastPage)
           => (trail.fetchedPage = 0 /\ ~trail.wrote))
    /\ [][(FetchStep /\ trail.fetchedPage = 0)
            => page = IF resumeFlag THEN lastIngestedPage + 1 ELSE 1]_vars

(* A run with -resume on a watermark of 2 has fetched page 3 first. *)
C28_Witness ==
    /\ pc = "cast"
    /\ resumeFlag
    /\ lastIngestedPage = 2
    /\ firstPage = 3
    /\ trail.fetchedPage = 3

---------------------------------------------------------------------------
(* Further properties of one fetch (SpecFetch).                            *)

(* C29: every request of a fetch, the first one and every retry, is sent   *)
(* after a Limiter.Wait of its own has taken a token: the attempt that is  *)
(* being sent or answered is the one the latest token was taken for, and   *)
(* there are never more requests than tokens taken.                        *)
C29_TokenBeforeEveryAttempt ==
    /\ http.requests <= http.taken
    /\ http.pc \in {"send", "inflight", "backoff"} => http.taken = http.attempt + 1
    /\ http.pc = "inflight" => http.requests = http.taken

(* The third request is in flight, each of the three with its token. *)
C29_Witness ==
    /\ http.pc = "inflight"
    /\ http.requests = 3
    /\ http.taken = 3

(* C30: the k-th sleep of a fetch, which follows the throttled attempt     *)
(* with index k - 1, lasts BaseBackoff * 2^(k-1); and sleeps occur between *)
(* two attempts only, so a fetch that has returned without being cancelled *)
(* that has slept has slept fewer times than it has sent requests.         *)
C30_BackoffDoublesBetweenAttempts ==
    /\ \A k \in 1..Len(http.slept) : http.slept[k] = BaseBackoff * 2^(k - 1)
    /\ (Returned /\ ~http.ctxDone /\ http.slept # <<>>)
          => Len(http.slept) < http.requests

---------------------------------------------------------------------------
(* Properties of the degrees handler (SpecHandler).                        *)

(* C31: a request for two different actors that is answered with a path of *)
(* 2n+1 steps reports n degrees, and one answered with no path reports 0;  *)
(* a request with the same actor twice reports 0 degrees with SameActor    *)
(* set, and ShortestPath is not called for it.                             *)
C31_DegreesOfPath ==
    (last.op = "degreesHandler" /\ last.ok)
    => LET data == last.result[1]
       IN  IF last.a = last.b
           THEN data.Degrees = 0 /\ data.SameActor /\ ~last.ran
           ELSE /\ last.ran /\ ~data.SameActor
                /\ data.Steps = <<>> => data.Degrees = 0
                /\ data.Steps # <<>> => Len(data.Steps) = 2 * data.Degrees + 1

(* A path over two movies is reported as two degrees. *)
C31_Witness ==
    /\ last.op = "degreesHandler" /\ last.ok
    /\ last.a # last.b
    /\ Len(last.result[1].Steps) = 5
    /\ last.result[1].Degrees = 2

---------------------------------------------------------------------------
(* Properties of the watermark over several runs (Spec).                   *)

(* C32, as stated: no step of any run makes the stored watermark smaller.  *)
C32_WatermarkNeverDecreases ==
    [][lastIngestedPage' >= lastIngestedPage]_vars

(* C32: no step of a run with -resume makes the stored watermark smaller.  *)
(* (A run without -resume starts at page 1 and overwrites the watermark    *)
(* with the pages it completes, whatever was stored.)                      *)
C32_ResumeNeverLowersWatermark ==
    [][resumeFlag => lastIngestedPage' >= lastIngestedPage]_vars

(* A run with -resume found the watermark 1 and has raised it to 3. *)
C32_Witness ==
    /\ resumeFlag
    /\ firstPage = 2
    /\ setCalled = 3
    /\ lastIngestedPage = 3

(* C33: every page given to SetLastIngestedPage is at most the total page  *)
(* count reported by the fetch of that page, so the stored watermark is    *)
(* never above the provider's total page count.                            *)
C33_WatermarkWithinTotal ==
    /\ [](lastIngestedPage <= TotalPages)
    /\ [][SaveStep => page <= trail.total]_vars

---------------------------------------------------------------------------
(* Properties of the decoding of a response (SpecFetch).                   *)

(* C34: a fetch whose response has an error status other than 429 returns  *)
(* an error to its caller, never a decoded value.                          *)
C34_ErrorStatusIsError ==
    (http.pc = "returned" /\ http.res = "resp" /\ http.body = "status") => http.ret = "error"

---------------------------------------------------------------------------
(* Properties of a run with -all (SpecDown).                               *)

(* C35: with -all a run makes at most as many catalog fetches as the       *)
(* provider's total page count plus one, also when catalog fetches fail    *)
(* for a reason other than cancellation, and it fetches no page after one  *)
(* past the provider's total.                                              *)
C35_AllBoundedByTotal ==
    /\ [](allFlag => trail.fetches <= TotalPages + 1)
    /\ [][(allFlag /\ FetchStep /\ trail.fetchedPage > TotalPages) => cancelled]_vars

---------------------------------------------------------------------------
(* Properties of the end of the retry loop (SpecFetch).                    *)

(* C36: a fetch with MaxRetries >= 1 that returns the error of exhausted   *)
(* retries has met MaxRetries answers 429 and has slept after every one of *)
(* them, the last sleep of BaseBackoff * 2^(MaxRetries-1) included; a      *)
(* fetch cancelled while it was blocked in the sleep after its last        *)
(* attempt returns the cancellation error, not the one of exhausted        *)
(* retries.                                                                *)
C36_SleepsAfterLastAttempt ==
    /\ (Returned /\ http.res = "exhausted" /\ http.maxRetries >= 1)
       => /\ http.throttled = http.maxRetries
          /\ http.sleeps = http.maxRetries
          /\ Len(http.slept) = http.maxRetries
          /\ Last(http.slept) = Shl(BaseBackoff, http.maxRetries - 1)
    /\ (/\ Returned
        /\ http.cancelAt = "backoff" /\ http.cancelBlocked
        /\ http.throttled = http.maxRetries)
       => http.res = "ctx"

(* Three attempts, all throttled: the fetch slept one, two and four times  *)
(* BaseBackoff and returned the error of exhausted retries.                *)
C36_Witness ==
    /\ http.pc = "returned" /\ http.ret = "error" /\ http.res = "exhausted"
    /\ http.maxRetries = 3 /\ http.requests = 3
    /\ http.slept = <<BaseBackoff, 2 * BaseBackoff, 4 * BaseBackoff>>
    /\ ~http.ctxDone

(* C37: a fetch of a client with MaxRetries = 0 takes no token, sends no   *)
(* request and sleeps never; it returns the error of exhausted retries, so *)
(* the catalog or cast fetch that made it returns an error.                *)
C37_ZeroRetriesNoRequest ==
    http.maxRetries = 0
    => /\ http.taken = 0 /\ http.requests = 0 /\ http.slept = <<>>
       /\ http.pc \in {"loop", "done", "returned"}
       /\ Returned => http.res = "exhausted"
       /\ http.pc = "returned" => http.ret = "error"

(* The fetch of a client with MaxRetries = 0 has returned, a token was at  *)
(* hand and ctx was not cancelled.                                         *)
C37_Witness ==
    /\ http.maxRetries = 0
    /\ http.pc = "returned" /\ http.ret = "error" /\ http.res = "exhausted"
    /\ http.tokens > 0 /\ ~http.ctxDone

---------------------------------------------------------------------------
(* Properties of CreateCostarEdge for a missing actor (SpecStore).         *)

(* C38: a CreateCostarEdge call for two ids of which one or both have no   *)
(* Actor node leaves the nodes and the relationships of the store as they  *)
(* were, and returns nil.                                                  *)
C38_MissingActorNoWrite ==
    [][(/\ last'.op = "CreateCostarEdge"
        /\ (MatchActor(nodes, last'.a) = {} \/ MatchActor(nodes, last'.b) = {}))
       => (nodes' = nodes /\ rels' = rels /\ last'.ok)]_vars

(* The store held one relationship; a call for an actor that has a node    *)
(* and one that has none returned nil and the store holds what it held.    *)
C38_Witness ==
    /\ last.op = "CreateCostarEdge" /\ last.ok
    /\ MatchActor(nodes, last.a) # {} /\ MatchActor(nodes, last.b) = {}
    /\ last.preRels = 1 /\ Cardinality(rels) = 1
    /\ last.preNodes = Cardinality(nodes)

---------------------------------------------------------------------------
(* Properties of the errors of ShortestPath (SpecQuery).                   *)

(* C39: ShortestPath returns an error only when session.Run has failed;    *)
(* when the reading of the record fails, a failure of the store while the  *)
(* result is read included, it returns no steps and no error: the answer   *)
(* it gives for two actors that no relationship joins.                     *)
C39_ReadFailureLooksLikeNoPath ==
    last.op = "ShortestPath"
    => /\ ~last.ok => last.failedAt = "run"
       /\ last.failedAt = "run" => ~last.ok
       /\ last.failedAt = "read"
          => /\ last.ok /\ last.result = <<>>
             /\ ShortestPath(Graph(nodes, {}), 1, 2)
                   = {[value |-> last.result, err |-> ~last.ok]}

(* Actors 1 and 2 are joined by a relationship; the store failed while the *)
(* record was read, and the call returned no steps and no error.           *)
C39_Witness ==
    /\ last.op = "ShortestPath" /\ last.failedAt = "read"
    /\ last.a = 1 /\ last.b = 2
    /\ Joining(Store, 1, 2) # {}
    /\ last.ok /\ last.result = <<>>
====
